---- MODULE Spec2Model ----
(***************************************************************************)
(* Visitor tracking: the IP resolver, the geolocation resolver with        *)
(* provider fallback, the heuristic classifiers, the two tracking POST     *)
(* handlers and the GET and POST handlers of the admin dashboard.          *)
(*                                                                         *)
(* A JavaScript string that the code inspects character by character (an   *)
(* IP, a header value, a user-agent) is a sequence of one-character        *)
(* strings; a string the code only copies or tests for emptiness (country, *)
(* timezone, ...) is a TLA+ string.  A JSON object is a function whose     *)
(* DOMAIN is the set of the fields it defines.  Coordinates are integers   *)
(* in 1/10000 of a degree.                                                 *)
(***************************************************************************)
EXTENDS Integers, Sequences, FiniteSets, TLC

VARIABLES
    route,          \* which POST handler serves the request
    pc,             \* position of the handler
    hdr,            \* request headers: header name -> value
    body,           \* raw request body
    clientData,     \* parsed body
    ip,             \* resolved client IP
    effectiveIP,    \* IP used for geolocation
    isLocalhost,
    apiIdx,         \* position of the resolver's loop over apis
    net,            \* the outbound call the handler is awaiting
    attempts,       \* outbound calls made so far, in order
    geoData,
    geoSrc,         \* where geoData came from
    uaResult,       \* result of the user-agent parser
    visitorInfo,
    dbSaveSuccess,
    visitors,       \* the visitor table
    response,
    calls,          \* calls of the classifier functions: arguments and returned value
    dpc,            \* position of the dashboard handler
    dash,           \* response of the dashboard handler
    clock,          \* the wall clock, in hours
    prisma,         \* connection of the basic route's module-level database client
    dbError         \* the error caught around the create

vars == <<route, pc, hdr, body, clientData, ip, effectiveIP, isLocalhost, apiIdx,
          net, attempts, geoData, geoSrc, uaResult, visitorInfo, dbSaveSuccess,
          visitors, response, calls, dpc, dash, clock, prisma, dbError>>

(***************************************************************************)
(* Bounds                                                                  *)
(***************************************************************************)
\* longest x-forwarded-for value enumerated for the IP resolver
MaxLen == 3

(***************************************************************************)
(* Strings                                                                 *)
(***************************************************************************)
\* the value of an expression that evaluates to undefined where a string is expected
Undefined == <<"undefined">>

Whitespace == {" ", "\t"}

Includes(s, t) ==
    \E i \in 1..(Len(s) - Len(t) + 1) : SubSeq(s, i, i + Len(t) - 1) = t

StartsWith(s, t) ==
    Len(s) >= Len(t) /\ SubSeq(s, 1, Len(t)) = t

\* s.split(c)[0]
SplitFirst(s, c) ==
    IF \E i \in 1..Len(s) : s[i] = c
    THEN LET i == CHOOSE k \in 1..Len(s) :
                     s[k] = c /\ \A j \in 1..(k - 1) : s[j] # c
         IN SubSeq(s, 1, i - 1)
    ELSE s

\* s.trim()
Trim(s) ==
    IF \A i \in 1..Len(s) : s[i] \in Whitespace
    THEN <<>>
    ELSE LET a == CHOOSE k \in 1..Len(s) :
                     s[k] \notin Whitespace /\ \A j \in 1..(k - 1) : s[j] \in Whitespace
             b == CHOOSE k \in 1..Len(s) :
                     s[k] \notin Whitespace /\ \A j \in (k + 1)..Len(s) : s[j] \in Whitespace
         IN SubSeq(s, a, b)

STR_for == <<"f","o","r","=">>
STR_loopback == <<"1","2","7",".","0",".","0",".","1">>
STR_loopback6 == <<":",":","1">>
STR_192_168 == <<"1","9","2",".","1","6","8",".">>
STR_10 == <<"1","0",".">>
STR_172 == <<"1","7","2",".">>
STR_Mobile == <<"M","o","b","i","l","e">>
STR_Tablet == <<"T","a","b","l","e","t">>
STR_iPad == <<"i","P","a","d">>

\* characters the capture group [^;,\s] of the Forwarded pattern rejects
ForStop == {";", ","} \cup Whitespace

\* positions where /for=([^;,\s]+)/ matches
ForMatches(s) ==
    {i \in 1..(Len(s) - 4) :
        SubSeq(s, i, i + 3) = STR_for /\ s[i + 4] \notin ForStop}

\* forwarded.match(/for=([^;,\s]+)/)[1]: leftmost match, greedy capture
ForToken(s) ==
    LET i == CHOOSE k \in ForMatches(s) : \A j \in ForMatches(s) : k <= j
        e == CHOOSE k \in (i + 4)..Len(s) :
                 /\ \A j \in (i + 4)..k : s[j] \notin ForStop
                 /\ (k = Len(s) \/ s[k + 1] \in ForStop)
    IN SubSeq(s, i + 4, e)

(***************************************************************************)
(* Request headers                                                         *)
(***************************************************************************)
\* headers.get(name) is truthy: the header is present and not empty
Has(h, name) == name \in DOMAIN h /\ h[name] # <<>>

\* ServerTracker.extractClientIP with x-real-ip consulted before x-forwarded-for
extractClientIP_realFirst(h) ==
    IF Has(h, "cf-connecting-ip") THEN h["cf-connecting-ip"]
    ELSE IF Has(h, "x-real-ip") THEN h["x-real-ip"]
    ELSE IF Has(h, "x-forwarded-for") THEN Trim(SplitFirst(h["x-forwarded-for"], ","))
    ELSE IF Has(h, "x-client-ip") THEN h["x-client-ip"]
    ELSE IF Has(h, "x-forwarded") THEN h["x-forwarded"]
    ELSE IF Has(h, "forwarded-for") THEN h["forwarded-for"]
    ELSE IF Has(h, "forwarded") /\ ForMatches(h["forwarded"]) # {}
         THEN ForToken(h["forwarded"])
    ELSE STR_loopback

extractClientIP(h) ==
    IF Has(h, "cf-connecting-ip") THEN h["cf-connecting-ip"]
    ELSE IF Has(h, "x-forwarded-for") THEN Trim(SplitFirst(h["x-forwarded-for"], ","))
    ELSE IF Has(h, "x-real-ip") THEN h["x-real-ip"]
    ELSE IF Has(h, "x-client-ip") THEN h["x-client-ip"]
    ELSE IF Has(h, "x-forwarded") THEN h["x-forwarded"]
    ELSE IF Has(h, "forwarded-for") THEN h["forwarded-for"]
    ELSE IF Has(h, "forwarded") /\ ForMatches(h["forwarded"]) # {}
         THEN ForToken(h["forwarded"])
    ELSE STR_loopback

\* getRealIP of the basic track route
getRealIP(h) ==
    IF Has(h, "cf-connecting-ip") THEN h["cf-connecting-ip"]
    ELSE IF Has(h, "x-real-ip") THEN h["x-real-ip"]
    ELSE IF Has(h, "x-forwarded-for") THEN Trim(SplitFirst(h["x-forwarded-for"], ","))
    ELSE STR_loopback

(***************************************************************************)
(* Numbers                                                                 *)
(***************************************************************************)
Digit == {"0","1","2","3","4","5","6","7","8","9"}

DigitVal(c) ==
    CASE c = "0" -> 0 [] c = "1" -> 1 [] c = "2" -> 2 [] c = "3" -> 3
      [] c = "4" -> 4 [] c = "5" -> 5 [] c = "6" -> 6 [] c = "7" -> 7
      [] c = "8" -> 8 [] c = "9" -> 9

RECURSIVE IntOf(_)
IntOf(s) ==
    IF s = <<>> THEN 0
    ELSE 10 * IntOf(SubSeq(s, 1, Len(s) - 1)) + DigitVal(s[Len(s)])

AllDigits(s) == \A i \in 1..Len(s) : s[i] \in Digit

Unsigned(s) == IF Len(s) > 0 /\ s[1] = "-" THEN SubSeq(s, 2, Len(s)) ELSE s

IntPart(s) == SplitFirst(Unsigned(s), ".")

FracPart(s) ==
    LET u == Unsigned(s)
    IN IF Len(IntPart(s)) < Len(u) THEN SubSeq(u, Len(IntPart(s)) + 2, Len(u)) ELSE <<>>

\* Number(s) is not NaN, for the decimal notation -?digits(.digits)?
IsNumeric(s) ==
    /\ Len(IntPart(s)) > 0
    /\ AllDigits(IntPart(s))
    /\ AllDigits(FracPart(s))

\* Number(s) || 0 in 1/10000 units (digits after the fourth are dropped)
NumberOr0(s) ==
    IF IsNumeric(Trim(s))
    THEN LET t == Trim(s)
             mag == IntOf(IntPart(t)) * 10000
                    + IntOf(SubSeq(FracPart(t) \o <<"0","0","0","0">>, 1, 4))
         IN IF t[1] = "-" THEN 0 - mag ELSE mag
    ELSE 0

(***************************************************************************)
(* JSON objects                                                            *)
(***************************************************************************)
\* obj.f || dflt for a field holding a TLA+ string
OrS(obj, f, dflt) == IF f \in DOMAIN obj /\ obj[f] # "" THEN obj[f] ELSE dflt

\* obj.f || dflt for a field holding a character sequence
OrC(obj, f, dflt) == IF f \in DOMAIN obj /\ obj[f] # <<>> THEN obj[f] ELSE dflt

\* obj.f || dflt for a numeric field
OrN(obj, f, dflt) == IF f \in DOMAIN obj /\ obj[f] # 0 THEN obj[f] ELSE dflt

\* obj.f is truthy, for a boolean field
Flag(obj, f) == f \in DOMAIN obj /\ obj[f]

\* { query: q, ...rec }: a field whose value is undefined is not defined
WithQuery(rec, q) ==
    [f \in DOMAIN rec \cup (IF q = Undefined THEN {} ELSE {"query"}) |->
        IF f = "query" THEN q ELSE rec[f]]

\* the fields of GeoLocationData that are not optional
GeoFields ==
    {"query", "status", "country", "countryCode", "region", "regionName", "city",
     "zip", "lat", "lon", "timezone", "isp", "org", "as", "reverse", "mobile",
     "proxy", "hosting"}

STR_UnknownISP == <<"U","n","k","n","o","w","n"," ","I","S","P">>
STR_UnknownOrg == <<"U","n","k","n","o","w","n"," ","O","r","g","a","n","i","z","a","t","i","o","n">>
STR_DevNetwork == <<"D","e","v","e","l","o","p","m","e","n","t"," ","N","e","t","w","o","r","k">>
STR_LocalDevEnv == <<"L","o","c","a","l"," ","D","e","v","e","l","o","p","m","e","n","t"," ","E","n","v","i","r","o","n","m","e","n","t">>
STR_LocalDev == <<"L","o","c","a","l"," ","D","e","v","e","l","o","p","m","e","n","t">>
STR_Localhost == <<"L","o","c","a","l","h","o","s","t">>
STR_0_0 == <<"0",",","0">>

LondonLat == 515074
LondonLon == -1278

(***************************************************************************)
(* fetchGeoLocationWithFallback: the provider list                         *)
(***************************************************************************)
apis == <<"ip-api.com", "ipapi.co", "ipinfo.io">>

\* apis[0].transform
transformIpApi(q, data) == data

\* apis[1].transform
transformIpapiCo(q, data) ==
    WithQuery(
        [status |-> "success",
         country |-> OrS(data, "country_name", "Unknown"),
         countryCode |-> OrS(data, "country_code", "XX"),
         region |-> OrS(data, "region_code", "XX"),
         regionName |-> OrS(data, "region", "Unknown"),
         city |-> OrS(data, "city", "Unknown"),
         zip |-> OrS(data, "postal", "Unknown"),
         lat |-> OrN(data, "latitude", 0),
         lon |-> OrN(data, "longitude", 0),
         timezone |-> OrS(data, "timezone", "UTC"),
         isp |-> OrC(data, "org", STR_UnknownISP),
         org |-> OrC(data, "org", STR_UnknownOrg),
         as |-> OrS(data, "asn", "Unknown"),
         reverse |-> "Unknown",
         mobile |-> FALSE,
         proxy |-> FALSE,
         hosting |-> FALSE], q)

\* the part of loc after its first comma, or Undefined when it has none
AfterComma(loc) ==
    IF Len(SplitFirst(loc, ",")) < Len(loc)
    THEN SubSeq(loc, Len(SplitFirst(loc, ",")) + 2, Len(loc))
    ELSE Undefined

\* apis[2].transform
transformIpinfo(q, data) ==
    LET loc == OrC(data, "loc", STR_0_0)
        lat == NumberOr0(SplitFirst(loc, ","))
        lon == IF AfterComma(loc) = Undefined THEN 0
               ELSE NumberOr0(SplitFirst(AfterComma(loc), ","))
    IN WithQuery(
        [status |-> "success",
         country |-> OrS(data, "country", "Unknown"),
         countryCode |-> OrS(data, "country", "XX"),
         region |-> OrS(data, "region", "XX"),
         regionName |-> OrS(data, "region", "Unknown"),
         city |-> OrS(data, "city", "Unknown"),
         zip |-> OrS(data, "countryCode", "Unknown"),
         lat |-> lat,
         lon |-> lon,
         timezone |-> OrS(data, "timezone", "UTC"),
         isp |-> OrC(data, "org", STR_UnknownISP),
         org |-> OrC(data, "org", STR_UnknownOrg),
         as |-> "Unknown",
         reverse |-> OrS(data, "isp", "Unknown"),
         longitude |-> OrN(data, "lon", 0),
         latitude |-> OrN(data, "lat", 0),
         mobile |-> FALSE,
         proxy |-> FALSE,
         hosting |-> FALSE], q)

\* every provider's answer passed through as it is
transform_identity(k, q, data) == data

\* api.transform(data) of the provider at position k
transform(k, q, data) ==
    CASE k = 1 -> transformIpApi(q, data)
      [] k = 2 -> transformIpapiCo(q, data)
      [] k = 3 -> transformIpinfo(q, data)

\* the provider's own error signal in a 2xx body
apiError(k, data) ==
    \/ k = 1 /\ ~("status" \in DOMAIN data /\ data["status"] = "success")
    \/ k = 2 /\ Flag(data, "error")

\* the simulated record returned for a localhost request
LocalhostRecord(q) ==
    WithQuery(
        [status |-> "success",
         country |-> "United Kingdom",
         countryCode |-> "GB",
         region |-> "ENG",
         regionName |-> "England",
         city |-> "London",
         zip |-> "EC1A 1BB",
         lat |-> LondonLat,
         lon |-> LondonLon,
         timezone |-> "Europe/London",
         isp |-> STR_DevNetwork,
         org |-> STR_LocalDevEnv,
         as |-> "AS0 Localhost",
         reverse |-> "localhost.localdomain",
         mobile |-> FALSE,
         proxy |-> FALSE,
         hosting |-> TRUE], q)

\* a fallback record that keeps the demo location for every address
FallbackRecord_demo(q, local, cd) == LocalhostRecord(q)

\* the record the enhanced handler substitutes when the resolver throws
FallbackRecord(q, local, cd) ==
    WithQuery(
        [status |-> "success",
         country |-> IF local THEN "United Kingdom" ELSE "Unknown",
         countryCode |-> IF local THEN "GB" ELSE "XX",
         region |-> IF local THEN "ENG" ELSE "XX",
         regionName |-> IF local THEN "England" ELSE "Unknown",
         city |-> IF local THEN "London" ELSE "Unknown",
         zip |-> IF local THEN "SW1A 1AA" ELSE "Unknown",
         lat |-> IF local THEN LondonLat ELSE 0,
         lon |-> IF local THEN LondonLon ELSE 0,
         timezone |-> OrS(cd, "timezone", "UTC"),
         isp |-> IF local THEN STR_LocalDev ELSE STR_UnknownISP,
         org |-> IF local THEN STR_Localhost ELSE STR_UnknownOrg,
         as |-> IF local THEN "AS0 Local Network" ELSE "Unknown",
         reverse |-> IF local THEN "localhost" ELSE "Unknown",
         mobile |-> FALSE,
         proxy |-> FALSE,
         hosting |-> local], q)

\* the record the basic handler substitutes when its geolocation fetch fails
BasicFallbackRecord(q, cd) ==
    WithQuery(
        [status |-> "success",
         country |-> "Unknown",
         countryCode |-> "XX",
         region |-> "XX",
         regionName |-> "Unknown",
         city |-> "Unknown",
         zip |-> "Unknown",
         lat |-> 0,
         lon |-> 0,
         timezone |-> OrS(cd, "timezone", "UTC"),
         isp |-> STR_UnknownISP,
         org |-> STR_UnknownOrg,
         as |-> "Unknown",
         reverse |-> "Unknown",
         mobile |-> FALSE,
         proxy |-> FALSE,
         hosting |-> FALSE,
         threat |-> "unknown"], q)

\* a test that knows the two loopback addresses only
IsLocalIP_loopbackOnly(a) == a = STR_loopback6 \/ a = STR_loopback

\* the handler's test for a local address
IsLocalIP(a) ==
    \/ a = STR_loopback6
    \/ a = STR_loopback
    \/ StartsWith(a, STR_192_168)
    \/ StartsWith(a, STR_10)
    \/ StartsWith(a, STR_172)

(***************************************************************************)
(* Inputs of a tracking request and answers of the collaborators           *)
(***************************************************************************)
STR_xff_two == <<"8",".","8",".","8",".","8",","," ","1","0",".","0",".","0",".","1">>
STR_xff_comma == <<",","1","0",".","0",".","0",".","1">>
STR_8_8_8_8 == <<"8",".","8",".","8",".","8">>
STR_private == <<"1","9","2",".","1","6","8",".","0",".","7">>
STR_public == <<"2","0","3",".","0",".","1","1","3",".","9">>
STR_curl == <<"c","u","r","l","/","8",".","0">>
UA_Mobile == <<"M","o","z","i","l","l","a","/","5",".","0"," ","(","A","n","d","r","o","i","d",")"," ","M","o","b","i","l","e"," ","S","a","f","a","r","i">>
UA_Desktop == <<"M","o","z","i","l","l","a","/","5",".","0"," ","(","X","1","1",";"," ","L","i","n","u","x",")"," ","F","i","r","e","f","o","x">>
STR_Orange == <<"O","r","a","n","g","e"," ","S",".","A",".">>
STR_Google == <<"G","o","o","g","l","e"," ","L","L","C">>
STR_loc == <<"4","8",".","8","5","3","4",",","2",".","3","4","8","8">>

NoHeaders == [n \in {} |-> <<>>]

\* header sets a request may carry
HeaderSets ==
    { NoHeaders,
      "x-forwarded-for" :> STR_xff_two,
      "x-forwarded-for" :> STR_xff_comma,
      "x-real-ip" :> STR_private,
      ("x-forwarded-for" :> STR_xff_two) @@ ("user-agent" :> STR_curl),
      ("x-real-ip" :> STR_public) @@ ("x-forwarded-for" :> STR_xff_two) }

Screen == [width |-> 1920, height |-> 1080, colorDepth |-> 24, pixelDepth |-> 24]
Viewport == [width |-> 1280, height |-> 720]

\* request bodies: text that is not JSON, or a JSON object
Bodies ==
    { [json |-> FALSE],
      [json |-> TRUE, value |-> [n \in {} |-> 0]],
      [json |-> TRUE, value |->
          [userAgent |-> UA_Mobile, timezone |-> "Europe/Paris",
           screen |-> Screen, viewport |-> Viewport]],
      [json |-> TRUE, value |->
          [userAgent |-> UA_Desktop, timezone |-> "",
           screen |-> Screen, viewport |-> Viewport]],
      [json |-> TRUE, value |-> [userAgent |-> UA_Mobile, timezone |-> "Asia/Tokyo"]] }

\* 2xx bodies of the public-IP echo service
ProbeBodies ==
    { [json |-> FALSE],
      [json |-> TRUE, value |-> [n \in {} |-> 0]],
      [json |-> TRUE, value |-> [ip |-> STR_public]] }

IpApiFull ==
    [status |-> "success", country |-> "France", countryCode |-> "FR",
     region |-> "IDF", regionName |-> "Ile-de-France", city |-> "Paris",
     zip |-> "75001", lat |-> 488534, lon |-> 23488, timezone |-> "Europe/Paris",
     isp |-> STR_Orange, org |-> STR_Orange, as |-> "AS3215 Orange S.A.",
     reverse |-> "", mobile |-> TRUE, proxy |-> FALSE, hosting |-> FALSE,
     query |-> STR_8_8_8_8]

IpapiCoFull ==
    [ip |-> STR_8_8_8_8, country_name |-> "United States", country_code |-> "US",
     region_code |-> "CA", region |-> "California", city |-> "Mountain View",
     postal |-> "94043", latitude |-> 374056, longitude |-> -1220775,
     timezone |-> "America/Los_Angeles", org |-> STR_Google, asn |-> "AS15169"]

IpinfoFull ==
    [ip |-> STR_8_8_8_8, country |-> "FR", region |-> "Ile-de-France",
     city |-> "Paris", loc |-> STR_loc, org |-> STR_Orange,
     timezone |-> "Europe/Paris", postal |-> "75001"]

\* 2xx bodies of the provider at position k
ProviderBodies(k) ==
    CASE k = 1 ->
            { [json |-> FALSE],
              [json |-> TRUE, value |-> IpApiFull],
              [json |-> TRUE, value |-> [status |-> "success"]],
              [json |-> TRUE, value |-> [status |-> "fail", message |-> "reserved range"]] }
      [] k = 2 ->
            { [json |-> FALSE],
              [json |-> TRUE, value |-> IpapiCoFull],
              [json |-> TRUE, value |-> [city |-> "Paris"]],
              [json |-> TRUE, value |-> [error |-> TRUE, reason |-> "RateLimited"]] }
      [] k = 3 ->
            { [json |-> FALSE],
              [json |-> TRUE, value |-> IpinfoFull],
              [json |-> TRUE, value |-> [n \in {} |-> 0]] }

\* device.type values the user-agent parser may report
DeviceTypes == {"none", "mobile", "tablet", "smarttv", "console"}

(***************************************************************************)
(* Values of the handler's locals before they are assigned                 *)
(***************************************************************************)
NoObject == [none |-> TRUE]
NoCall == [phase |-> "idle"]
NoResponse == [status |-> 0]

\* an outbound call that has just been issued
Call(target, timer) == [phase |-> "connect", target |-> target, timer |-> timer]

Attempt(target) == [target |-> target, result |-> "pending", data |-> NoObject]

\* the last attempt ends with result r, having read body b
EndAttempt(r, b) ==
    [attempts EXCEPT ![Len(attempts)] = [@ EXCEPT !.result = r, !.data = b]]

(***************************************************************************)
(* Classification of the device                                            *)
(***************************************************************************)
\* a device type that looks for "mobile" in lower case in the user-agent as it was sent
deviceTypeOf_lowerCase(t, geo, ua) ==
    IF t # "none"
    THEN CASE t = "mobile" -> "Mobile"
           [] t = "tablet" -> "Tablet"
           [] t = "smarttv" -> "Smart TV"
           [] OTHER -> "Desktop"
    ELSE IF Flag(geo, "mobile") \/ Includes(ua, <<"m","o","b","i","l","e">>) THEN "Mobile"
    ELSE IF Includes(ua, STR_Tablet) \/ Includes(ua, STR_iPad) THEN "Tablet"
    ELSE "Desktop"

\* deviceType of the enhanced handler
deviceTypeOf(t, geo, ua) ==
    IF t # "none"
    THEN CASE t = "mobile" -> "Mobile"
           [] t = "tablet" -> "Tablet"
           [] t = "smarttv" -> "Smart TV"
           [] OTHER -> "Desktop"
    ELSE IF Flag(geo, "mobile") \/ Includes(ua, STR_Mobile) THEN "Mobile"
    ELSE IF Includes(ua, STR_Tablet) \/ Includes(ua, STR_iPad) THEN "Tablet"
    ELSE "Desktop"

\* deviceType of the basic handler
basicDeviceTypeOf(t, geo, ua) ==
    IF t # "none"
    THEN CASE t = "mobile" -> "Mobile"
           [] t = "tablet" -> "Tablet"
           [] OTHER -> "Desktop"
    ELSE IF Flag(geo, "mobile") \/ Includes(ua, STR_Mobile) THEN "Mobile"
    ELSE IF Includes(ua, STR_Tablet) THEN "Tablet"
    ELSE "Desktop"

\* the field of the geolocation record a visitorInfo field is read from
GeoField(f) ==
    CASE f = "region" -> "regionName"
      [] f = "latitude" -> "lat"
      [] f = "longitude" -> "lon"
      [] OTHER -> f

\* visitorInfo: a field read from an undefined field of geo is not defined
VisitorInfo(addr, geo, device, ua) ==
    [f \in {"ip", "device", "userAgent"} \cup
           {g \in {"country", "region", "city", "latitude", "longitude",
                   "timezone", "isp"} : GeoField(g) \in DOMAIN geo} |->
        CASE f = "ip" -> addr
          [] f = "device" -> device
          [] f = "userAgent" -> ua
          [] OTHER -> geo[GeoField(f)]]

\* the data of prisma.visitor.create
Row(info) == [f \in DOMAIN info \ {"isp"} |-> info[f]]

\* an envelope without the message of the error
ErrorResponse_noMessage ==
    [status |-> 500, success |-> FALSE, error |-> "Tracking failed"]

\* the 500 error envelope of the outer catch; message is the message of the error caught
ErrorResponse ==
    [status |-> 500, success |-> FALSE, error |-> "Tracking failed",
     message |-> "error.message"]

(***************************************************************************)
(* Heuristic classifiers                                                   *)
(***************************************************************************)
\* the characters with the character codes 32..126, in the order of their codes;
\* the grave accent (code 96) is written "grave"
Ascii ==
    <<" ","!","\"","#","$","%","&","'","(",")","*","+",",","-",".","/",
      "0","1","2","3","4","5","6","7","8","9",":",";","<","=",">","?",
      "@","A","B","C","D","E","F","G","H","I","J","K","L","M","N","O",
      "P","Q","R","S","T","U","V","W","X","Y","Z","[","\\","]","^","_",
      "grave","a","b","c","d","e","f","g","h","i","j","k","l","m","n","o",
      "p","q","r","s","t","u","v","w","x","y","z","{","|","}","~">>

\* c.charCodeAt(0)
charCodeAt(c) == 31 + CHOOSE i \in 1..Len(Ascii) : Ascii[i] = c

\* s.toLowerCase()
toLowerCase(s) ==
    [i \in 1..Len(s) |->
        IF charCodeAt(s[i]) \in 65..90 THEN Ascii[charCodeAt(s[i]) + 1] ELSE s[i]]

\* list.some(item => s.includes(item))
IncludesSome(s, list) == \E item \in list : Includes(s, item)

\* vpnIndicators of ServerTracker.detectVPN
vpnIndicators ==
    { <<"v","p","n">>,
      <<"p","r","o","x","y">>,
      <<"t","o","r">>,
      <<"n","o","r","d">>,
      <<"e","x","p","r","e","s","s">>,
      <<"s","u","r","f","s","h","a","r","k">>,
      <<"c","y","b","e","r","g","h","o","s","t">>,
      <<"p","r","i","v","a","t","e"," ","i","n","t","e","r","n","e","t"," ","a","c","c","e","s","s">>,
      <<"p","i","a">>,
      <<"t","u","n","n","e","l","b","e","a","r">>,
      <<"h","o","t","s","p","o","t"," ","s","h","i","e","l","d">>,
      <<"w","i","n","d","s","c","r","i","b","e">>,
      <<"p","r","o","t","o","n","v","p","n">>,
      <<"m","u","l","l","v","a","d">>,
      <<"p","u","r","e","v","p","n">>,
      <<"i","p","v","a","n","i","s","h">>,
      <<"h","i","d","e",".","m","e">>,
      <<"z","e","n","m","a","t","e">>,
      <<"h","o","l","a">>,
      <<"b","e","t","t","e","r","n","e","t">> }

\* suspiciousIsps of ServerTracker.detectVPN
suspiciousIsps ==
    { <<"d","i","g","i","t","a","l","o","c","e","a","n">>,
      <<"a","m","a","z","o","n">>,
      <<"g","o","o","g","l","e"," ","c","l","o","u","d">>,
      <<"m","i","c","r","o","s","o","f","t"," ","a","z","u","r","e">>,
      <<"v","u","l","t","r">>,
      <<"l","i","n","o","d","e">>,
      <<"o","v","h">>,
      <<"h","e","t","z","n","e","r">>,
      <<"s","c","a","l","e","w","a","y">> }

\* vpnIndicators of the detectVPN of the basic route
basicVpnIndicators ==
    { <<"v","p","n">>,
      <<"p","r","o","x","y">>,
      <<"t","o","r">>,
      <<"n","o","r","d">>,
      <<"e","x","p","r","e","s","s">>,
      <<"s","u","r","f","s","h","a","r","k">>,
      <<"c","y","b","e","r","g","h","o","s","t">>,
      <<"p","r","i","v","a","t","e"," ","i","n","t","e","r","n","e","t"," ","a","c","c","e","s","s">>,
      <<"p","i","a">> }

\* suspiciousUAPatterns of ServerTracker.getThreatLevel
suspiciousUAPatterns ==
    { <<"b","o","t">>,
      <<"c","r","a","w","l","e","r">>,
      <<"s","p","i","d","e","r">>,
      <<"s","c","r","a","p","e","r">>,
      <<"c","u","r","l">>,
      <<"w","g","e","t">>,
      <<"p","y","t","h","o","n">>,
      <<"j","a","v","a">>,
      <<"p","h","p">>,
      <<"r","u","b","y">>,
      <<"p","e","r","l">>,
      <<"g","o","-","h","t","t","p","-","c","l","i","e","n","t">>,
      <<"o","k","h","t","t","p">> }

\* ServerTracker.detectVPN without the list of hosting providers
detectVPN_keywordsOnly(geo, userAgent) ==
    LET isp == toLowerCase(OrC(geo, "isp", <<>>))
        org == toLowerCase(OrC(geo, "org", <<>>))
    IN  \/ IncludesSome(isp, vpnIndicators) \/ IncludesSome(org, vpnIndicators)
        \/ Flag(geo, "proxy") \/ Flag(geo, "hosting")

\* ServerTracker.detectVPN(geoData, userAgent): hasVpnIndicator || hasProxyFlag ||
\* isSuspiciousIsp; the lowered user-agent is computed and not used
detectVPN(geo, userAgent) ==
    LET isp == toLowerCase(OrC(geo, "isp", <<>>))
        org == toLowerCase(OrC(geo, "org", <<>>))
        hasVpnIndicator ==
            \E indicator \in vpnIndicators :
                Includes(isp, indicator) \/ Includes(org, indicator)
        isSuspiciousIsp ==
            \E provider \in suspiciousIsps :
                Includes(isp, provider) \/ Includes(org, provider)
        hasProxyFlag == Flag(geo, "proxy") \/ Flag(geo, "hosting")
    IN  hasVpnIndicator \/ hasProxyFlag \/ isSuspiciousIsp

\* detectVPN(geoData, userAgent) of the basic route, as the truth value its callers
\* test: it returns undefined when no indicator matches and the flags are absent
basicDetectVPN(geo, userAgent) ==
    LET isp == toLowerCase(OrC(geo, "isp", <<>>))
        org == toLowerCase(OrC(geo, "org", <<>>))
        ua == toLowerCase(userAgent)
    IN  \/ \E indicator \in basicVpnIndicators :
              \/ Includes(isp, indicator)
              \/ Includes(org, indicator)
              \/ Includes(ua, indicator)
        \/ Flag(geo, "proxy")
        \/ Flag(geo, "hosting")

\* ServerTracker.getThreatLevel with the local signals consulted before the
\* provider's threat tag
getThreatLevel_localFirst(geo, isVPN, userAgent) ==
    IF isVPN \/ Flag(geo, "proxy") \/ Flag(geo, "hosting") THEN "medium"
    ELSE IF "threat" \in DOMAIN geo /\ geo.threat # "" /\ geo.threat # "low"
    THEN geo.threat
    ELSE IF IncludesSome(toLowerCase(userAgent), suspiciousUAPatterns) THEN "medium"
    ELSE "low"

\* ServerTracker.getThreatLevel comparing geoData.threat.toLowerCase() without testing
\* that the record has a threat tag: a record without one makes it throw
getThreatLevel_unguarded(geo, isVPN, userAgent) ==
    IF "threat" \notin DOMAIN geo THEN "TypeError"
    ELSE IF geo.threat # "" /\ geo.threat # "low" THEN geo.threat
    ELSE IF isVPN \/ Flag(geo, "proxy") \/ Flag(geo, "hosting") THEN "medium"
    ELSE IF IncludesSome(toLowerCase(userAgent), suspiciousUAPatterns) THEN "medium"
    ELSE "low"

\* ServerTracker.getThreatLevel(geoData, isVPN, userAgent)
getThreatLevel(geo, isVPN, userAgent) ==
    IF "threat" \in DOMAIN geo /\ geo.threat # "" /\ geo.threat # "low"
    THEN geo.threat
    ELSE IF isVPN \/ Flag(geo, "proxy") THEN "medium"
    ELSE IF Flag(geo, "hosting") THEN "medium"
    ELSE IF IncludesSome(toLowerCase(userAgent), suspiciousUAPatterns) THEN "medium"
    ELSE "low"

\* getThreatLevel(geoData, isVPN) of the basic route
basicGetThreatLevel(geo, isVPN) ==
    IF "threat" \in DOMAIN geo /\ geo.threat # "" /\ geo.threat # "low"
    THEN geo.threat
    ELSE IF isVPN \/ Flag(geo, "proxy") THEN "medium"
    ELSE IF Flag(geo, "hosting") THEN "medium"
    ELSE "low"

\* ServerTracker.getConnectionType with the tablet check ahead of the mobile check
getConnectionType_tabletFirst(userAgent, geo) ==
    LET ua == toLowerCase(userAgent)
    IN  IF Flag(geo, "mobile") THEN "Mobile"
        ELSE IF Includes(ua, <<"t","a","b","l","e","t">>)
                \/ Includes(ua, <<"i","p","a","d">>) THEN "Tablet"
        ELSE IF Includes(ua, <<"m","o","b","i","l","e">>) THEN "Mobile"
        ELSE IF Includes(ua, <<"s","m","a","r","t","-","t","v">>)
                \/ Includes(ua, <<"t","v">>) THEN "Smart TV"
        ELSE IF Includes(ua, <<"p","l","a","y","s","t","a","t","i","o","n">>)
                \/ Includes(ua, <<"x","b","o","x">>)
                \/ Includes(ua, <<"n","i","n","t","e","n","d","o">>)
        THEN "Gaming Console"
        ELSE "Broadband"

\* ServerTracker.getConnectionType(userAgent, geoData)
getConnectionType(userAgent, geo) ==
    LET ua == toLowerCase(userAgent)
    IN  IF Flag(geo, "mobile") THEN "Mobile"
        ELSE IF Includes(ua, <<"m","o","b","i","l","e">>) THEN "Mobile"
        ELSE IF Includes(ua, <<"t","a","b","l","e","t">>)
                \/ Includes(ua, <<"i","p","a","d">>) THEN "Tablet"
        ELSE IF Includes(ua, <<"s","m","a","r","t","-","t","v">>)
                \/ Includes(ua, <<"t","v">>) THEN "Smart TV"
        ELSE IF Includes(ua, <<"p","l","a","y","s","t","a","t","i","o","n">>)
                \/ Includes(ua, <<"x","b","o","x">>)
                \/ Includes(ua, <<"n","i","n","t","e","n","d","o">>)
        THEN "Gaming Console"
        ELSE "Broadband"

\* getConnectionType(userAgent, geoData) of the basic route
basicGetConnectionType(userAgent, geo) ==
    IF Flag(geo, "mobile") THEN "Mobile"
    ELSE IF Includes(userAgent, STR_Mobile) THEN "Mobile"
    ELSE IF Includes(userAgent, STR_Tablet) THEN "Tablet"
    ELSE "Broadband"

\* ToInt32 of hi * 2^16 + lo, for halves that may have left the range 0..65535
ToInt32(hi, lo) ==
    LET low == lo % 65536
        high == (hi + (lo \div 65536)) % 65536
    IN  (IF high >= 32768 THEN high - 65536 ELSE high) * 65536 + low

\* hash = ((hash << 5) - hash) + char; hash = hash & hash, computed on the 16-bit
\* halves of hash so that no intermediate value leaves the 32-bit range
hashStep(hash, char) ==
    LET hi == hash \div 65536
        lo == hash % 65536
        shifted == ToInt32(hi * 32, lo * 32)
    IN  ToInt32((shifted \div 65536) - hi, (shifted % 65536) - lo + char)

RECURSIVE hashLoop(_, _)
\* the values hash takes: 0 before the loop, then its value after each of the first
\* n iterations over the characters of s
hashLoop(s, n) ==
    IF n = 0 THEN <<0>>
    ELSE LET before == hashLoop(s, n - 1)
         IN  Append(before, hashStep(before[n], charCodeAt(s[n])))

\* hash when the loop over fingerprintData has ended
hashOf(s) == hashLoop(s, Len(s))[Len(s) + 1]

\* Math.abs(hash) as its two 16-bit halves: Math.abs(-2^31) is 2^31
MathAbs(hash) ==
    IF hash >= 0 THEN [hi |-> hash \div 65536, lo |-> hash % 65536]
    ELSE LET m == -(hash + 1)
             low == (m % 65536) + 1
         IN  [hi |-> (m \div 65536) + (low \div 65536), lo |-> low % 65536]

Base36Digits ==
    <<"0","1","2","3","4","5","6","7","8","9","a","b","c","d","e","f","g","h","i",
      "j","k","l","m","n","o","p","q","r","s","t","u","v","w","x","y","z">>

RECURSIVE toString36(_)
\* n.toString(36) of a non-negative number below 2^32
toString36(n) ==
    LET high == n.hi % 36
        low == high * 65536 + n.lo
        quotient == [hi |-> n.hi \div 36, lo |-> low \div 36]
        last == <<Base36Digits[(low % 36) + 1]>>
    IN  IF quotient.hi = 0 /\ quotient.lo = 0 THEN last
        ELSE toString36(quotient) \o last

\* headers[name] || ''
HeaderOr(headers, name) == OrC(headers, name, <<>>)

\* ServerTracker.generateDeviceFingerprint that also hashes the connection header
generateDeviceFingerprint_connection(userAgent, headers) ==
    toString36(MathAbs(hashOf(
        userAgent \o <<"|">> \o HeaderOr(headers, "accept-language")
                  \o <<"|">> \o HeaderOr(headers, "accept-encoding")
                  \o <<"|">> \o HeaderOr(headers, "accept")
                  \o <<"|">> \o HeaderOr(headers, "dnt")
                  \o <<"|">> \o HeaderOr(headers, "upgrade-insecure-requests")
                  \o <<"|">> \o HeaderOr(headers, "connection"))))

\* ServerTracker.generateDeviceFingerprint(userAgent, headers)
generateDeviceFingerprint(userAgent, headers) ==
    LET fingerprintData ==
            userAgent \o <<"|">> \o HeaderOr(headers, "accept-language")
                      \o <<"|">> \o HeaderOr(headers, "accept-encoding")
                      \o <<"|">> \o HeaderOr(headers, "accept")
                      \o <<"|">> \o HeaderOr(headers, "dnt")
                      \o <<"|">> \o HeaderOr(headers, "upgrade-insecure-requests")
    IN  toString36(MathAbs(hashOf(fingerprintData)))

(***************************************************************************)
(* Initial state                                                           *)
(***************************************************************************)
Init ==
    /\ route = "none"
    /\ pc = "idle"
    /\ hdr = NoHeaders
    /\ body = [json |-> FALSE]
    /\ clientData = NoObject
    /\ ip = Undefined
    /\ effectiveIP = Undefined
    /\ isLocalhost = FALSE
    /\ apiIdx = 0
    /\ net = NoCall
    /\ attempts = <<>>
    /\ geoData = NoObject
    /\ geoSrc = "none"
    /\ uaResult = "unparsed"
    /\ visitorInfo = NoObject
    /\ dbSaveSuccess = FALSE
    /\ visitors = <<>>
    /\ response = NoResponse
    /\ calls = <<>>
    /\ dpc = "idle"
    /\ dash = NoResponse
    /\ clock = 0
    /\ prisma = "closed"
    /\ dbError = "none"

\* a POST arrives at one of the two tracking routes
Receive ==
    /\ pc = "idle"
    /\ \E r \in {"enhanced", "basic"}, h \in HeaderSets, b \in Bodies :
          /\ route' = r
          /\ hdr' = h
          /\ body' = b
    /\ pc' = "start"
    /\ UNCHANGED <<clientData, ip, effectiveIP, isLocalhost, apiIdx, net, attempts,
                   geoData, geoSrc, uaResult, visitorInfo, dbSaveSuccess, visitors,
                   response>>
    /\ UNCHANGED <<calls, dpc, dash, clock, prisma, dbError>>

(***************************************************************************)
(* POST of the enhanced route                                              *)
(***************************************************************************)
\* request.json(), extractClientIP, the local-address test and the start of the probe
E_Start ==
    /\ route = "enhanced" /\ pc = "start"
    /\ IF ~body.json
       THEN /\ response' = ErrorResponse
            /\ pc' = "done"
            /\ UNCHANGED <<clientData, ip, effectiveIP, isLocalhost, net, attempts>>
       ELSE /\ clientData' = body.value
            /\ ip' = extractClientIP(hdr)
            /\ effectiveIP' = ip'
            /\ isLocalhost' = IsLocalIP(ip')
            /\ IF isLocalhost'
               THEN /\ net' = Call("api.ipify.org", TRUE)
                    /\ attempts' = Append(attempts, Attempt("api.ipify.org"))
                    /\ pc' = "probe"
               ELSE /\ pc' = "resolve"
                    /\ UNCHANGED <<net, attempts>>
            /\ UNCHANGED response
    /\ UNCHANGED <<route, hdr, body, apiIdx, geoData, geoSrc, uaResult, visitorInfo,
                   dbSaveSuccess, visitors>>
    /\ UNCHANGED <<calls, dpc, dash, clock, prisma, dbError>>

\* the probe's fetch resolves: clearTimeout, then the body is read if the status is ok
E_ProbeResponds ==
    /\ route = "enhanced" /\ pc = "probe" /\ net.phase = "connect"
    /\ \E ok \in BOOLEAN :
          IF ok
          THEN /\ net' = [net EXCEPT !.phase = "body", !.timer = FALSE]
               /\ UNCHANGED <<pc, attempts>>
          ELSE /\ net' = NoCall
               /\ attempts' = EndAttempt("http", NoObject)
               /\ pc' = "resolve"
    /\ UNCHANGED <<route, hdr, body, clientData, ip, effectiveIP, isLocalhost, apiIdx,
                   geoData, geoSrc, uaResult, visitorInfo, dbSaveSuccess, visitors,
                   response>>
    /\ UNCHANGED <<calls, dpc, dash, clock, prisma, dbError>>

\* the probe's body arrives: effectiveIP = publicIPData.ip, or the catch when it is not JSON
E_ProbeBody ==
    /\ route = "enhanced" /\ pc = "probe" /\ net.phase = "body"
    /\ \E b \in ProbeBodies :
          IF b.json
          THEN /\ effectiveIP' = IF "ip" \in DOMAIN b.value THEN b.value.ip ELSE Undefined
               /\ attempts' = EndAttempt("ok", b)
          ELSE /\ attempts' = EndAttempt("invalid", b)
               /\ UNCHANGED effectiveIP
    /\ net' = NoCall
    /\ pc' = "resolve"
    /\ UNCHANGED <<route, hdr, body, clientData, ip, isLocalhost, apiIdx, geoData,
                   geoSrc, uaResult, visitorInfo, dbSaveSuccess, visitors, response>>
    /\ UNCHANGED <<calls, dpc, dash, clock, prisma, dbError>>

\* the probe's fetch rejects (network error): caught and logged
E_ProbeRejects ==
    /\ route = "enhanced" /\ pc = "probe" /\ net.phase = "connect"
    /\ net' = NoCall
    /\ attempts' = EndAttempt("rejected", NoObject)
    /\ pc' = "resolve"
    /\ UNCHANGED <<route, hdr, body, clientData, ip, effectiveIP, isLocalhost, apiIdx,
                   geoData, geoSrc, uaResult, visitorInfo, dbSaveSuccess, visitors,
                   response>>
    /\ UNCHANGED <<calls, dpc, dash, clock, prisma, dbError>>

\* the probe's 3 s timer fires while it is armed: controller.abort(), caught and logged
E_ProbeTimeout ==
    /\ route = "enhanced" /\ pc = "probe" /\ net.phase # "idle" /\ net.timer
    /\ net' = NoCall
    /\ attempts' = EndAttempt("timeout", NoObject)
    /\ pc' = "resolve"
    /\ UNCHANGED <<route, hdr, body, clientData, ip, effectiveIP, isLocalhost, apiIdx,
                   geoData, geoSrc, uaResult, visitorInfo, dbSaveSuccess, visitors,
                   response>>
    /\ UNCHANGED <<calls, dpc, dash, clock, prisma, dbError>>

(***************************************************************************)
(* fetchGeoLocationWithFallback                                            *)
(***************************************************************************)
\* a catch that rethrows instead of continuing: no later provider is tried
CatchRethrow(k) == Len(apis) + 1

\* a loop that steps over the provider after a failed one
CatchSkip(k) == k + 2

\* a catch that tries the failed provider again
CatchRetry(k) == k

\* the catch of the loop body: continue with the next provider
CatchContinue(k) == k + 1

\* a resolver that short-circuits only while it holds the private address itself, and
\* asks the providers about the public address the probe returned
E_Resolve_probed ==
    /\ route = "enhanced" /\ pc = "resolve"
    /\ IF isLocalhost /\ effectiveIP = ip
       THEN /\ geoData' = LocalhostRecord(effectiveIP)
            /\ geoSrc' = "localhost"
            /\ pc' = "classify"
            /\ UNCHANGED apiIdx
       ELSE /\ apiIdx' = 1
            /\ pc' = "geo_loop"
            /\ UNCHANGED <<geoData, geoSrc>>
    /\ UNCHANGED <<route, hdr, body, clientData, ip, effectiveIP, isLocalhost, net,
                   attempts, uaResult, visitorInfo, dbSaveSuccess, visitors, response>>
    /\ UNCHANGED <<calls, dpc, dash, clock, prisma, dbError>>

\* the call of the resolver: the localhost short-circuit, or the start of the loop
E_Resolve ==
    /\ route = "enhanced" /\ pc = "resolve"
    /\ IF isLocalhost
       THEN /\ geoData' = LocalhostRecord(effectiveIP)
            /\ geoSrc' = "localhost"
            /\ pc' = "classify"
            /\ UNCHANGED apiIdx
       ELSE /\ apiIdx' = 1
            /\ pc' = "geo_loop"
            /\ UNCHANGED <<geoData, geoSrc>>
    /\ UNCHANGED <<route, hdr, body, clientData, ip, effectiveIP, isLocalhost, net,
                   attempts, uaResult, visitorInfo, dbSaveSuccess, visitors, response>>
    /\ UNCHANGED <<calls, dpc, dash, clock, prisma, dbError>>

\* fetch(api.url, {signal: AbortSignal.timeout(5000)})
E_ProviderFetch ==
    /\ route = "enhanced" /\ pc = "geo_loop" /\ apiIdx <= Len(apis)
    /\ net' = Call(apis[apiIdx], TRUE)
    /\ attempts' = Append(attempts, Attempt(apis[apiIdx]))
    /\ pc' = "geo_await"
    /\ UNCHANGED <<route, hdr, body, clientData, ip, effectiveIP, isLocalhost, apiIdx,
                   geoData, geoSrc, uaResult, visitorInfo, dbSaveSuccess, visitors,
                   response>>
    /\ UNCHANGED <<calls, dpc, dash, clock, prisma, dbError>>

\* the provider answers with a status line: a status that is not ok throws
E_ProviderResponds ==
    /\ route = "enhanced" /\ pc = "geo_await" /\ net.phase = "connect"
    /\ \E ok \in BOOLEAN :
          IF ok
          THEN /\ net' = [net EXCEPT !.phase = "body"]
               /\ UNCHANGED <<pc, attempts, apiIdx>>
          ELSE /\ net' = NoCall
               /\ attempts' = EndAttempt("http", NoObject)
               /\ apiIdx' = CatchContinue(apiIdx)
               /\ pc' = "geo_loop"
    /\ UNCHANGED <<route, hdr, body, clientData, ip, effectiveIP, isLocalhost, geoData,
                   geoSrc, uaResult, visitorInfo, dbSaveSuccess, visitors, response>>
    /\ UNCHANGED <<calls, dpc, dash, clock, prisma, dbError>>

\* response.json(), the provider's error check, the transform and the return
E_ProviderBody ==
    /\ route = "enhanced" /\ pc = "geo_await" /\ net.phase = "body"
    /\ \E b \in ProviderBodies(apiIdx) :
          IF b.json /\ ~apiError(apiIdx, b.value)
          THEN /\ geoData' = transform(apiIdx, effectiveIP, b.value)
               /\ geoSrc' = apis[apiIdx]
               /\ attempts' = EndAttempt("ok", b)
               /\ pc' = "classify"
               /\ UNCHANGED apiIdx
          ELSE /\ attempts' = EndAttempt(IF b.json THEN "flag" ELSE "invalid", b)
               /\ apiIdx' = CatchContinue(apiIdx)
               /\ pc' = "geo_loop"
               /\ UNCHANGED <<geoData, geoSrc>>
    /\ net' = NoCall
    /\ UNCHANGED <<route, hdr, body, clientData, ip, effectiveIP, isLocalhost, uaResult,
                   visitorInfo, dbSaveSuccess, visitors, response>>
    /\ UNCHANGED <<calls, dpc, dash, clock, prisma, dbError>>

\* the fetch rejects (network error)
E_ProviderRejects ==
    /\ route = "enhanced" /\ pc = "geo_await" /\ net.phase = "connect"
    /\ net' = NoCall
    /\ attempts' = EndAttempt("rejected", NoObject)
    /\ apiIdx' = CatchContinue(apiIdx)
    /\ pc' = "geo_loop"
    /\ UNCHANGED <<route, hdr, body, clientData, ip, effectiveIP, isLocalhost, geoData,
                   geoSrc, uaResult, visitorInfo, dbSaveSuccess, visitors, response>>
    /\ UNCHANGED <<calls, dpc, dash, clock, prisma, dbError>>

\* the 5 s abort signal fires, before the status line or while the body is read
E_ProviderTimeout ==
    /\ route = "enhanced" /\ pc = "geo_await" /\ net.phase # "idle" /\ net.timer
    /\ net' = NoCall
    /\ attempts' = EndAttempt("timeout", NoObject)
    /\ apiIdx' = CatchContinue(apiIdx)
    /\ pc' = "geo_loop"
    /\ UNCHANGED <<route, hdr, body, clientData, ip, effectiveIP, isLocalhost, geoData,
                   geoSrc, uaResult, visitorInfo, dbSaveSuccess, visitors, response>>
    /\ UNCHANGED <<calls, dpc, dash, clock, prisma, dbError>>

\* the loop is exhausted: the resolver throws and POST substitutes its fallback record
E_AllFailed ==
    /\ route = "enhanced" /\ pc = "geo_loop" /\ apiIdx > Len(apis)
    /\ geoData' = FallbackRecord(effectiveIP, isLocalhost, clientData)
    /\ geoSrc' = "fallback"
    /\ pc' = "classify"
    /\ UNCHANGED <<route, hdr, body, clientData, ip, effectiveIP, isLocalhost, apiIdx,
                   net, attempts, uaResult, visitorInfo, dbSaveSuccess, visitors,
                   response>>
    /\ UNCHANGED <<calls, dpc, dash, clock, prisma, dbError>>

(***************************************************************************)
(* POST of the enhanced route, after geolocation                           *)
(***************************************************************************)
\* the user-agent parser, the device type and visitorInfo; reading a method of an
\* undefined userAgent throws, which the outer catch answers with the envelope
E_Classify ==
    /\ route = "enhanced" /\ pc = "classify"
    /\ \E t \in DeviceTypes :
          /\ uaResult' = t
          /\ IF "userAgent" \in DOMAIN clientData
             THEN /\ visitorInfo' =
                        VisitorInfo(ip, geoData,
                                    deviceTypeOf(t, geoData, clientData.userAgent),
                                    clientData.userAgent)
                  /\ pc' = "insert"
                  /\ UNCHANGED response
             ELSE /\ response' = ErrorResponse
                  /\ pc' = "done"
                  /\ UNCHANGED visitorInfo
    /\ UNCHANGED <<route, hdr, body, clientData, ip, effectiveIP, isLocalhost, apiIdx,
                   net, attempts, geoData, geoSrc, dbSaveSuccess, visitors>>
    /\ UNCHANGED <<calls, dpc, dash, clock, prisma, dbError>>

\* a create that is not awaited: the payload is sent while the insert is pending
E_Insert_unawaited ==
    /\ route = "enhanced" /\ pc = "insert"
    /\ response' = [status |-> 200, success |-> TRUE, dbSaved |-> FALSE,
                    visitorInfo |-> visitorInfo]
    /\ pc' = "done"
    /\ UNCHANGED <<route, hdr, body, clientData, ip, effectiveIP, isLocalhost, apiIdx,
                   net, attempts, geoData, geoSrc, uaResult, visitorInfo,
                   dbSaveSuccess, visitors>>
    /\ UNCHANGED <<calls, dpc, dash, clock, prisma, dbError>>

\* an insert whose throw is not caught around the create and reaches the outer catch
E_Insert_rethrow ==
    /\ route = "enhanced" /\ pc = "insert"
    /\ \E stored \in BOOLEAN :
          /\ dbSaveSuccess' = stored
          /\ dbError' = IF stored THEN "none" ELSE "store"
          /\ visitors' = IF stored THEN Append(visitors, Row(visitorInfo)) ELSE visitors
          /\ pc' = IF stored THEN "respond" ELSE "done"
          /\ response' = IF stored THEN response ELSE ErrorResponse
    /\ UNCHANGED <<route, hdr, body, clientData, ip, effectiveIP, isLocalhost, apiIdx,
                   net, attempts, geoData, geoSrc, uaResult, visitorInfo>>
    /\ UNCHANGED <<calls, dpc, dash, clock, prisma>>

\* prismadb.visitor.create: it stores the row, or it throws and the throw is logged
E_Insert ==
    /\ route = "enhanced" /\ pc = "insert"
    /\ \E stored \in BOOLEAN :
          /\ dbSaveSuccess' = stored
          /\ dbError' = IF stored THEN "none" ELSE "store"
          /\ visitors' = IF stored THEN Append(visitors, Row(visitorInfo)) ELSE visitors
    /\ pc' = "respond"
    /\ UNCHANGED <<route, hdr, body, clientData, ip, effectiveIP, isLocalhost, apiIdx,
                   net, attempts, geoData, geoSrc, uaResult, visitorInfo, response>>
    /\ UNCHANGED <<calls, dpc, dash, clock, prisma>>

\* a success payload whose dbSaved does not read dbSaveSuccess
E_Respond_saved ==
    /\ route = "enhanced" /\ pc = "respond"
    /\ response' = [status |-> 200, success |-> TRUE, dbSaved |-> TRUE,
                    visitorInfo |-> visitorInfo]
    /\ pc' = "done"
    /\ UNCHANGED <<route, hdr, body, clientData, ip, effectiveIP, isLocalhost, apiIdx,
                   net, attempts, geoData, geoSrc, uaResult, visitorInfo,
                   dbSaveSuccess, visitors>>
    /\ UNCHANGED <<calls, dpc, dash, clock, prisma, dbError>>

\* NextResponse.json of the success payload
E_Respond ==
    /\ route = "enhanced" /\ pc = "respond"
    /\ response' = [status |-> 200, success |-> TRUE, dbSaved |-> dbSaveSuccess,
                    visitorInfo |-> visitorInfo]
    /\ pc' = "done"
    /\ UNCHANGED <<route, hdr, body, clientData, ip, effectiveIP, isLocalhost, apiIdx,
                   net, attempts, geoData, geoSrc, uaResult, visitorInfo,
                   dbSaveSuccess, visitors>>
    /\ UNCHANGED <<calls, dpc, dash, clock, prisma, dbError>>

(***************************************************************************)
(* POST of the basic route                                                 *)
(***************************************************************************)
\* headers.userAgent: the user-agent request header, else the body's userAgent
BasicUA ==
    IF Has(hdr, "user-agent") THEN hdr["user-agent"]
    ELSE IF "userAgent" \in DOMAIN clientData THEN clientData.userAgent
    ELSE Undefined

\* request.json(), getRealIP and the fetch of ip-api.com, which carries no abort signal
B_Start ==
    /\ route = "basic" /\ pc = "start"
    /\ IF ~body.json
       THEN /\ response' = ErrorResponse
            /\ pc' = "done"
            /\ prisma' = "closed"
            /\ UNCHANGED <<clientData, ip, net, attempts>>
       ELSE /\ clientData' = body.value
            /\ ip' = getRealIP(hdr)
            /\ net' = Call("ip-api.com", FALSE)
            /\ attempts' = Append(attempts, Attempt("ip-api.com"))
            /\ pc' = "geo_await"
            /\ UNCHANGED <<response, prisma>>
    /\ UNCHANGED <<route, hdr, body, effectiveIP, isLocalhost, apiIdx, geoData, geoSrc,
                   uaResult, visitorInfo, dbSaveSuccess, visitors>>
    /\ UNCHANGED <<calls, dpc, dash, clock, dbError>>

\* ip-api.com answers with a status line: a status that is not ok selects the fallback data
B_GeoResponds ==
    /\ route = "basic" /\ pc = "geo_await" /\ net.phase = "connect"
    /\ \E ok \in BOOLEAN :
          IF ok
          THEN /\ net' = [net EXCEPT !.phase = "body"]
               /\ UNCHANGED <<pc, attempts, geoData, geoSrc>>
          ELSE /\ net' = NoCall
               /\ attempts' = EndAttempt("http", NoObject)
               /\ geoData' = BasicFallbackRecord(ip, clientData)
               /\ geoSrc' = "fallback"
               /\ pc' = "classify"
    /\ UNCHANGED <<route, hdr, body, clientData, ip, effectiveIP, isLocalhost, apiIdx,
                   uaResult, visitorInfo, dbSaveSuccess, visitors, response>>
    /\ UNCHANGED <<calls, dpc, dash, clock, prisma, dbError>>

\* geoResponse.json() and the status check; the body is used as it is
B_GeoBody ==
    /\ route = "basic" /\ pc = "geo_await" /\ net.phase = "body"
    /\ \E b \in ProviderBodies(1) :
          IF b.json /\ ~apiError(1, b.value)
          THEN /\ geoData' = b.value
               /\ geoSrc' = "ip-api.com"
               /\ attempts' = EndAttempt("ok", b)
          ELSE /\ geoData' = BasicFallbackRecord(ip, clientData)
               /\ geoSrc' = "fallback"
               /\ attempts' = EndAttempt(IF b.json THEN "flag" ELSE "invalid", b)
    /\ net' = NoCall
    /\ pc' = "classify"
    /\ UNCHANGED <<route, hdr, body, clientData, ip, effectiveIP, isLocalhost, apiIdx,
                   uaResult, visitorInfo, dbSaveSuccess, visitors, response>>
    /\ UNCHANGED <<calls, dpc, dash, clock, prisma, dbError>>

\* the fetch rejects (network error)
B_GeoRejects ==
    /\ route = "basic" /\ pc = "geo_await" /\ net.phase = "connect"
    /\ net' = NoCall
    /\ attempts' = EndAttempt("rejected", NoObject)
    /\ geoData' = BasicFallbackRecord(ip, clientData)
    /\ geoSrc' = "fallback"
    /\ pc' = "classify"
    /\ UNCHANGED <<route, hdr, body, clientData, ip, effectiveIP, isLocalhost, apiIdx,
                   uaResult, visitorInfo, dbSaveSuccess, visitors, response>>
    /\ UNCHANGED <<calls, dpc, dash, clock, prisma, dbError>>

\* the user-agent parser, the device type and visitorInfo
B_Classify ==
    /\ route = "basic" /\ pc = "classify"
    /\ \E t \in DeviceTypes :
          /\ uaResult' = t
          /\ IF BasicUA # Undefined
             THEN /\ visitorInfo' =
                        VisitorInfo(ip, geoData,
                                    basicDeviceTypeOf(t, geoData, BasicUA), BasicUA)
                  /\ pc' = "insert"
                  /\ UNCHANGED <<response, prisma>>
             ELSE /\ response' = ErrorResponse
                  /\ pc' = "done"
                  /\ prisma' = "closed"
                  /\ UNCHANGED visitorInfo
    /\ UNCHANGED <<route, hdr, body, clientData, ip, effectiveIP, isLocalhost, apiIdx,
                   net, attempts, geoData, geoSrc, dbSaveSuccess, visitors>>
    /\ UNCHANGED <<calls, dpc, dash, clock, dbError>>

\* prisma.visitor.create is called: the client connects if it is not connected, and
\* the handler awaits the query
B_Insert ==
    /\ route = "basic" /\ pc = "insert"
    /\ prisma' = "open"
    /\ pc' = "inserting"
    /\ UNCHANGED <<route, hdr, body, clientData, ip, effectiveIP, isLocalhost, apiIdx,
                   net, attempts, geoData, geoSrc, uaResult, visitorInfo,
                   dbSaveSuccess, visitors, response>>
    /\ UNCHANGED <<calls, dpc, dash, clock, dbError>>

\* an insert that replaces the rows stored before it
B_Inserted_replace ==
    /\ route = "basic" /\ pc = "inserting"
    /\ \E stored \in BOOLEAN :
          /\ dbSaveSuccess' = stored
          /\ dbError' = IF stored THEN "none" ELSE "store"
          /\ visitors' = IF stored THEN <<Row(visitorInfo)>> ELSE visitors
    /\ pc' = "respond"
    /\ UNCHANGED <<route, hdr, body, clientData, ip, effectiveIP, isLocalhost, apiIdx,
                   net, attempts, geoData, geoSrc, uaResult, visitorInfo, response>>
    /\ UNCHANGED <<calls, dpc, dash, clock, prisma>>

\* the create ends: the row is stored, or the store fails, and a failure is caught and
\* logged.  A query whose client was disconnected while it was in flight has no
\* outcome the handler's code fixes: it ends as it would have, or with an error of
\* the client
B_Inserted ==
    /\ route = "basic" /\ pc = "inserting"
    /\ \E error \in {"none", "store"} \cup (IF prisma = "closed" THEN {"client"} ELSE {}) :
          /\ dbError' = error
          /\ dbSaveSuccess' = (error = "none")
          /\ visitors' = IF error = "none" THEN Append(visitors, Row(visitorInfo))
                                            ELSE visitors
    /\ pc' = "respond"
    /\ UNCHANGED <<route, hdr, body, clientData, ip, effectiveIP, isLocalhost, apiIdx,
                   net, attempts, geoData, geoSrc, uaResult, visitorInfo, response>>
    /\ UNCHANGED <<calls, dpc, dash, clock, prisma>>

\* the success payload, which reads clientData.screen.width and clientData.viewport.width;
\* the finally of the handler disconnects the client
B_Respond ==
    /\ route = "basic" /\ pc = "respond"
    /\ response' =
          IF {"screen", "viewport"} \subseteq DOMAIN clientData
          THEN [status |-> 200, success |-> TRUE, visitorInfo |-> visitorInfo]
          ELSE ErrorResponse
    /\ pc' = "done"
    /\ prisma' = "closed"
    /\ UNCHANGED <<route, hdr, body, clientData, ip, effectiveIP, isLocalhost, apiIdx,
                   net, attempts, geoData, geoSrc, uaResult, visitorInfo,
                   dbSaveSuccess, visitors>>
    /\ UNCHANGED <<calls, dpc, dash, clock, dbError>>

(***************************************************************************)
(* Specifications                                                          *)
(***************************************************************************)
Next ==
    \/ Receive
    \/ E_Start \/ E_ProbeResponds \/ E_ProbeBody \/ E_ProbeRejects \/ E_ProbeTimeout
    \/ E_Resolve \/ E_ProviderFetch \/ E_ProviderResponds \/ E_ProviderBody
    \/ E_ProviderRejects \/ E_ProviderTimeout \/ E_AllFailed
    \/ E_Classify \/ E_Insert \/ E_Respond
    \/ B_Start \/ B_GeoResponds \/ B_GeoBody \/ B_GeoRejects
    \/ B_Classify \/ B_Insert \/ B_Inserted \/ B_Respond

Spec == Init /\ [][Next]_vars

\* the steps the handler takes on its own, and the timers of its outbound calls;
\* whether a collaborator ever answers is left open
HandlerStep ==
    \/ E_Start \/ E_Resolve \/ E_ProviderFetch \/ E_AllFailed
    \/ E_Classify \/ E_Insert \/ E_Respond
    \/ B_Start \/ B_Classify \/ B_Insert \/ B_Respond

TimerStep == E_ProbeTimeout \/ E_ProviderTimeout

FairSpec == Spec /\ WF_vars(HandlerStep) /\ WF_vars(TimerStep)

(***************************************************************************)
(* A tracking request served while other requests of the basic route end   *)
(***************************************************************************)
\* the finally of another request of the basic route, served at the same time:
\* prisma.$disconnect() on the client the module shares between its requests
B_OtherFinally ==
    /\ prisma = "open"
    /\ prisma' = "closed"
    /\ UNCHANGED <<route, pc, hdr, body, clientData, ip, effectiveIP, isLocalhost,
                   apiIdx, net, attempts, geoData, geoSrc, uaResult, visitorInfo,
                   dbSaveSuccess, visitors, response>>
    /\ UNCHANGED <<calls, dpc, dash, clock, dbError>>

ConcurrentNext == Next \/ B_OtherFinally

SpecConcurrent == Init /\ [][ConcurrentNext]_vars

(***************************************************************************)
(* The IP resolver on its own: every combination of the seven IP headers   *)
(***************************************************************************)
\* values of x-forwarded-for: the strings of at most MaxLen characters over a digit,
\* the comma and the blank that a Headers object can hold (no blank at either end)
XffValues ==
    {v \in UNION {[1..n -> {"7", ",", " "}] : n \in 0..MaxLen} :
        Len(v) > 0 => (v[1] # " " /\ v[Len(v)] # " ")}

ForwardedValues ==
    { <<>>,
      <<"f","o","r","=","9">>,
      <<"b","y","=","3">>,
      <<"f","o","r","=">>,
      <<"f","o","r","=","9",";","b","y","=","3">>,
      <<"f","o","r","=",";","f","o","r","=","9",",","f","o","r","=","4">> }

\* a header that is absent, present and empty, or present with the value v
Optional(v) == {Undefined, <<>>, v}

\* the Headers object holding the values that are not Undefined
HeadersOf(vals) == [n \in {m \in DOMAIN vals : vals[m] # Undefined} |-> vals[n]]

IPHeaderSets ==
    { HeadersOf(("cf-connecting-ip" :> c) @@ ("x-forwarded-for" :> x)
                @@ ("x-real-ip" :> r) @@ ("x-client-ip" :> k) @@ ("x-forwarded" :> f)
                @@ ("forwarded-for" :> g) @@ ("forwarded" :> w))
      : c \in Optional(<<"1">>), x \in XffValues \cup {Undefined},
        r \in Optional(<<"2">>), k \in Optional(<<"3">>), f \in Optional(<<"4">>),
        g \in Optional(<<"5">>), w \in ForwardedValues \cup {Undefined} }

IPInit ==
    /\ route = "none"
    /\ pc = "ip_fn"
    /\ hdr \in IPHeaderSets
    /\ body = [json |-> FALSE]
    /\ clientData = NoObject
    /\ ip = Undefined
    /\ effectiveIP = Undefined
    /\ isLocalhost = FALSE
    /\ apiIdx = 0
    /\ net = NoCall
    /\ attempts = <<>>
    /\ geoData = NoObject
    /\ geoSrc = "none"
    /\ uaResult = "unparsed"
    /\ visitorInfo = NoObject
    /\ dbSaveSuccess = FALSE
    /\ visitors = <<>>
    /\ response = NoResponse
    /\ calls = <<>>
    /\ dpc = "idle"
    /\ dash = NoResponse
    /\ clock = 0
    /\ prisma = "closed"
    /\ dbError = "none"

\* ServerTracker.extractClientIP(request)
IP_Extract ==
    /\ pc = "ip_fn"
    /\ ip' = extractClientIP(hdr)
    /\ pc' = "ip_done"
    /\ UNCHANGED <<route, hdr, body, clientData, effectiveIP, isLocalhost, apiIdx, net,
                   attempts, geoData, geoSrc, uaResult, visitorInfo, dbSaveSuccess,
                   visitors, response>>
    /\ UNCHANGED <<calls, dpc, dash, clock, prisma, dbError>>

\* getRealIP(request) of the basic route, applied to the same request
IP_GetRealIP ==
    /\ pc = "ip_done"
    /\ calls' = Append(calls, [fn |-> "getRealIP", headers |-> hdr,
                               result |-> getRealIP(hdr)])
    /\ pc' = "ip_both"
    /\ UNCHANGED <<route, hdr, body, clientData, ip, effectiveIP, isLocalhost, apiIdx,
                   net, attempts, geoData, geoSrc, uaResult, visitorInfo, dbSaveSuccess,
                   visitors, response, dpc, dash, clock, prisma, dbError>>

IPNext == IP_Extract \/ IP_GetRealIP

SpecIP == IPInit /\ [][IPNext]_vars

(***************************************************************************)
(* The classifiers on their own                                            *)
(***************************************************************************)
STR_NordVPN == <<"N","o","r","d","V","P","N">>
STR_Amazon == <<"A","m","a","z","o","n">>

\* a geolocation record: a field given as Undefined or "absent" is not defined
GeoOf(isp, org, proxy, hosting, mobile, threat) ==
    [f \in {g \in {"isp", "org"} : (IF g = "isp" THEN isp ELSE org) # Undefined}
           \cup {g \in {"proxy", "hosting", "mobile", "threat"} :
                    (CASE g = "proxy" -> proxy [] g = "hosting" -> hosting
                       [] g = "mobile" -> mobile [] OTHER -> threat) # "absent"} |->
        CASE f = "isp" -> isp
          [] f = "org" -> org
          [] f = "proxy" -> proxy = "true"
          [] f = "hosting" -> hosting = "true"
          [] f = "mobile" -> mobile = "true"
          [] OTHER -> threat]

ClassifyRecords ==
    { GeoOf(isp, org, proxy, hosting, mobile, threat) :
        isp \in {Undefined, STR_Orange, STR_NordVPN, STR_Amazon},
        org \in {Undefined, STR_Orange, STR_Google, STR_Amazon},
        proxy \in {"absent", "false", "true"},
        hosting \in {"absent", "false", "true"},
        mobile \in {"absent", "true"},
        threat \in {"absent", "", "low", "high"} }

\* user-agents: a desktop and a mobile browser, "iPad Mobile Safari", "iPad Safari",
\* "Xbox SmartTV", "PlayStation 5" and curl
ClassifyUAs ==
    { UA_Desktop, UA_Mobile,
      <<"i","P","a","d"," ","M","o","b","i","l","e"," ","S","a","f","a","r","i">>,
      <<"i","P","a","d"," ","S","a","f","a","r","i">>,
      <<"X","b","o","x"," ","S","m","a","r","t","T","V">>,
      <<"P","l","a","y","S","t","a","t","i","o","n"," ","5">>,
      STR_curl }

\* the state in which a function is applied to inputs drawn from G and U
FnInit(position, G, U) ==
    /\ route = "none"
    /\ pc = position
    /\ hdr = NoHeaders
    /\ body = [json |-> FALSE]
    /\ clientData \in U
    /\ ip = Undefined
    /\ effectiveIP = Undefined
    /\ isLocalhost = FALSE
    /\ apiIdx = 0
    /\ net = NoCall
    /\ attempts = <<>>
    /\ geoData \in G
    /\ geoSrc = "none"
    /\ uaResult = "unparsed"
    /\ visitorInfo = NoObject
    /\ dbSaveSuccess = FALSE
    /\ visitors = <<>>
    /\ response = NoResponse
    /\ calls = <<>>
    /\ dpc = "idle"
    /\ dash = NoResponse
    /\ clock = 0
    /\ prisma = "closed"
    /\ dbError = "none"

\* a call made at position returns: it leaves everything but the record of the call
\* and the position as it was
Returns(position, next, call) ==
    /\ pc = position
    /\ pc' = next
    /\ calls' = Append(calls, call)
    /\ UNCHANGED <<route, hdr, body, clientData, ip, effectiveIP, isLocalhost,
                   apiIdx, net, attempts, geoData, geoSrc, uaResult, visitorInfo,
                   dbSaveSuccess, visitors, response, dpc, dash, clock, prisma,
                   dbError>>

ClassifyInit ==
    FnInit("classify_fn", ClassifyRecords, {[userAgent |-> ua] : ua \in ClassifyUAs})

\* one classifier is applied to the record and the user-agent
ClassifyNext ==
    \/ Returns("classify_fn", "returned",
               [fn |-> "detectVPN", geoData |-> geoData,
                userAgent |-> clientData.userAgent,
                result |-> detectVPN(geoData, clientData.userAgent)])
    \/ Returns("classify_fn", "returned",
               [fn |-> "basicDetectVPN", geoData |-> geoData,
                userAgent |-> clientData.userAgent,
                result |-> basicDetectVPN(geoData, clientData.userAgent)])
    \/ \E isVPN \in BOOLEAN :
          Returns("classify_fn", "returned",
                  [fn |-> "getThreatLevel", geoData |-> geoData, isVPN |-> isVPN,
                   userAgent |-> clientData.userAgent,
                   result |-> getThreatLevel(geoData, isVPN, clientData.userAgent)])
    \/ \E isVPN \in BOOLEAN :
          Returns("classify_fn", "returned",
                  [fn |-> "basicGetThreatLevel", geoData |-> geoData,
                   isVPN |-> isVPN,
                   result |-> basicGetThreatLevel(geoData, isVPN)])
    \/ Returns("classify_fn", "returned",
               [fn |-> "getConnectionType", geoData |-> geoData,
                userAgent |-> clientData.userAgent,
                result |-> getConnectionType(clientData.userAgent, geoData)])
    \/ Returns("classify_fn", "returned",
               [fn |-> "basicGetConnectionType", geoData |-> geoData,
                userAgent |-> clientData.userAgent,
                result |-> basicGetConnectionType(clientData.userAgent, geoData)])

SpecClassify == ClassifyInit /\ [][ClassifyNext]_vars

\* most calls of generateDeviceFingerprint followed in one behaviour
MaxCalls == 2

\* user-agents: "hy JAC", "jy JAC" and curl
FingerprintUAs ==
    { <<"h","y"," ","J","A","C">>,
      <<"j","y"," ","J","A","C">>,
      STR_curl }

\* request headers: two hashed headers and one that is not hashed
FingerprintHeaderSets ==
    { HeadersOf(("accept-language" :> al) @@ ("dnt" :> dnt) @@ ("connection" :> conn)) :
        al \in {Undefined, <<>>, <<"e","n">>, <<"e","s">>},
        dnt \in {Undefined, <<"1">>},
        conn \in {Undefined, <<"k">>} }

FingerprintInit == FnInit("fingerprint_fn", {NoObject}, {NoObject})

\* a request arrives and its fingerprint is computed
FingerprintNext ==
    /\ Len(calls) < MaxCalls
    /\ \E ua \in FingerprintUAs, headers \in FingerprintHeaderSets :
          Returns("fingerprint_fn", "fingerprint_fn",
                  [fn |-> "generateDeviceFingerprint", userAgent |-> ua,
                   headers |-> headers,
                   result |-> generateDeviceFingerprint(ua, headers)])

SpecFingerprint == FingerprintInit /\ [][FingerprintNext]_vars

(***************************************************************************)
(* The dashboard route, and requests served one after another              *)
(***************************************************************************)
\* most rows the visitor table holds when a tracking request is accepted
MaxVisitors == 2

\* the 500 envelope of a dashboard handler; message is the message of the error caught
DashboardError(error) ==
    [status |-> 500, error |-> error, message |-> "error.message"]

\* groupBy device: the devices of the rows, each with the number of its rows
DeviceGroups(rows) ==
    [d \in {rows[i].device : i \in DOMAIN rows} |->
        Cardinality({i \in DOMAIN rows : rows[i].device = d})]

\* a tracking request arrives when the one before it has been answered; the requests
\* that find a row in the table come from the local host
T_Receive ==
    /\ pc \in {"idle", "done"}
    /\ dpc \in {"idle", "responded"}
    /\ Len(visitors) < MaxVisitors
    /\ \E r \in {"enhanced", "basic"},
          h \in IF visitors = <<>> THEN {NoHeaders, "x-real-ip" :> STR_public}
                                   ELSE {NoHeaders},
          b \in {x \in Bodies : x.json /\ "screen" \in DOMAIN x.value
                                       /\ x.value.userAgent = UA_Mobile} :
          /\ route' = r
          /\ hdr' = h
          /\ body' = b
    /\ pc' = "start"
    /\ clientData' = NoObject
    /\ ip' = Undefined
    /\ effectiveIP' = Undefined
    /\ isLocalhost' = FALSE
    /\ apiIdx' = 0
    /\ net' = NoCall
    /\ attempts' = <<>>
    /\ geoData' = NoObject
    /\ geoSrc' = "none"
    /\ uaResult' = "unparsed"
    /\ visitorInfo' = NoObject
    /\ dbSaveSuccess' = FALSE
    /\ response' = NoResponse
    /\ dbError' = "none"
    /\ UNCHANGED <<visitors, calls, dpc, dash, clock, prisma>>

\* a GET or a POST arrives at the dashboard route
D_Receive ==
    /\ dpc \in {"idle", "responded"}
    /\ pc \in {"idle", "done"}
    /\ \E method \in {"get", "post"} : dpc' = method
    /\ dash' = NoResponse
    /\ UNCHANGED <<route, pc, hdr, body, clientData, ip, effectiveIP, isLocalhost,
                   apiIdx, net, attempts, geoData, geoSrc, uaResult, visitorInfo,
                   dbSaveSuccess, visitors, response, calls, clock, prisma,
                   dbError>>

\* GET: prismadb.visitor.count(), or the query throws
D_GetCount ==
    /\ dpc = "get"
    /\ \E ok \in BOOLEAN :
          IF ok
          THEN /\ dash' = [status |-> 0, totalVisitors |-> Len(visitors)]
               /\ dpc' = "get_groups"
          ELSE /\ dash' = DashboardError("Failed to fetch dashboard data")
               /\ dpc' = "responded"
    /\ UNCHANGED <<route, pc, hdr, body, clientData, ip, effectiveIP, isLocalhost,
                   apiIdx, net, attempts, geoData, geoSrc, uaResult, visitorInfo,
                   dbSaveSuccess, visitors, response, calls, clock, prisma,
                   dbError>>

\* GET: the groupBy queries and the recent visitors; topDevices is uniqueDevices sorted
\* by count and cut to ten groups, more than the device types there are
D_GetGroups ==
    /\ dpc = "get_groups"
    /\ \E ok \in BOOLEAN :
          IF ok
          THEN /\ dash' = [status |-> 0, totalVisitors |-> dash.totalVisitors,
                            uniqueDevices |-> Cardinality(DOMAIN DeviceGroups(visitors)),
                            topDevices |-> DeviceGroups(visitors),
                            hourlyData |-> <<>>]
               /\ dpc' = "get_hourly"
          ELSE /\ dash' = DashboardError("Failed to fetch dashboard data")
               /\ dpc' = "responded"
    /\ UNCHANGED <<route, pc, hdr, body, clientData, ip, effectiveIP, isLocalhost,
                   apiIdx, net, attempts, geoData, geoSrc, uaResult, visitorInfo,
                   dbSaveSuccess, visitors, response, calls, clock, prisma,
                   dbError>>

\* GET: one round of the loop over i = 23 .. 0: hour is new Date() set back i hours and
\* cut to the full hour, and the bucket holds the hour of the day and the start of the
\* hour; the count of the bucket, which the visitedAt of the rows decides, is left out
D_GetHourly ==
    /\ dpc = "get_hourly"
    /\ \E ok \in BOOLEAN :
          IF ok
          THEN LET i == 23 - Len(dash.hourlyData)
                   hour == clock - i
               IN  /\ dash' = [dash EXCEPT !.hourlyData =
                                   Append(@, [hour |-> hour % 24, timestamp |-> hour])]
                   /\ dpc' = IF i = 0 THEN "get_rest" ELSE "get_hourly"
          ELSE /\ dash' = DashboardError("Failed to fetch dashboard data")
               /\ dpc' = "responded"
    /\ UNCHANGED <<route, pc, hdr, body, clientData, ip, effectiveIP, isLocalhost,
                   apiIdx, net, attempts, geoData, geoSrc, uaResult, visitorInfo,
                   dbSaveSuccess, visitors, response, calls, clock, prisma,
                   dbError>>

\* GET: the queries after the loop and the payload; ispData holds the rows of the table,
\* and an empty ispData is answered with 404
D_GetRespond ==
    /\ dpc = "get_rest"
    /\ \E ok \in BOOLEAN :
          dash' = IF ~ok THEN DashboardError("Failed to fetch dashboard data")
                  ELSE IF visitors = <<>>
                  THEN [status |-> 404, error |-> "No ISP data available"]
                  ELSE [status |-> 200, totalVisitors |-> dash.totalVisitors,
                        uniqueDevices |-> dash.uniqueDevices,
                        topDevices |-> dash.topDevices,
                        hourlyData |-> dash.hourlyData,
                        lastUpdated |-> clock]
    /\ dpc' = "responded"
    /\ UNCHANGED <<route, pc, hdr, body, clientData, ip, effectiveIP, isLocalhost,
                   apiIdx, net, attempts, geoData, geoSrc, uaResult, visitorInfo,
                   dbSaveSuccess, visitors, response, calls, clock, prisma,
                   dbError>>

\* POST: the count of the rows of the last minute, which the clock decides
D_Post ==
    /\ dpc = "post"
    /\ \E ok \in BOOLEAN, recentCount \in 0..Len(visitors) :
          dash' = IF ok
                  THEN [status |-> 200, success |-> TRUE, recentActivity |-> recentCount]
                  ELSE DashboardError("Failed to process request")
    /\ dpc' = "responded"
    /\ UNCHANGED <<route, pc, hdr, body, clientData, ip, effectiveIP, isLocalhost,
                   apiIdx, net, attempts, geoData, geoSrc, uaResult, visitorInfo,
                   dbSaveSuccess, visitors, response, calls, clock, prisma,
                   dbError>>

TableNext ==
    \/ T_Receive
    \/ E_Start \/ E_ProbeResponds \/ E_ProbeBody \/ E_ProbeRejects \/ E_ProbeTimeout
    \/ E_Resolve \/ E_ProviderFetch \/ E_ProviderResponds \/ E_ProviderBody
    \/ E_ProviderRejects \/ E_ProviderTimeout \/ E_AllFailed
    \/ E_Classify \/ E_Insert \/ E_Respond
    \/ B_Start \/ B_GeoResponds \/ B_GeoBody \/ B_GeoRejects
    \/ B_Classify \/ B_Insert \/ B_Inserted \/ B_Respond
    \/ D_Receive \/ D_GetCount \/ D_GetGroups \/ D_GetHourly \/ D_GetRespond \/ D_Post

SpecTable == Init /\ [][TableNext]_vars

(***************************************************************************)
(* The dashboard route while the clock advances and visitors are tracked   *)
(***************************************************************************)
\* hours the wall clock advances
MaxClock == 2

\* the wall clock passes an hour boundary
Tick ==
    /\ clock < MaxClock
    /\ clock' = clock + 1
    /\ UNCHANGED <<route, pc, hdr, body, clientData, ip, effectiveIP, isLocalhost,
                   apiIdx, net, attempts, geoData, geoSrc, uaResult, visitorInfo,
                   dbSaveSuccess, visitors, response, calls, dpc, dash, prisma,
                   dbError>>

\* prismadb.visitor.create of a tracking request that is served while the dashboard
\* handler runs: the handlers share the table only, and of such a request the
\* dashboard sees the row it stores, here that of a visitor from the local host
E_InsertMeanwhile ==
    /\ Len(visitors) < MaxVisitors
    /\ \E device \in {"Mobile", "Desktop"} :
          visitors' = Append(visitors,
                             Row(VisitorInfo(STR_loopback, LocalhostRecord(STR_loopback),
                                             device, UA_Mobile)))
    /\ UNCHANGED <<route, pc, hdr, body, clientData, ip, effectiveIP, isLocalhost,
                   apiIdx, net, attempts, geoData, geoSrc, uaResult, visitorInfo,
                   dbSaveSuccess, response, calls, dpc, dash, clock, prisma, dbError>>

DashboardNext ==
    \/ D_Receive \/ D_GetCount \/ D_GetGroups \/ D_GetHourly \/ D_GetRespond \/ D_Post
    \/ Tick \/ E_InsertMeanwhile

SpecDashboard == Init /\ [][DashboardNext]_vars

(***************************************************************************)
(* Properties of the geolocation resolver                                  *)
(***************************************************************************)
\* the geolocation provider calls of the request, in the order they were made
GeoAttempts == SelectSeq(attempts, LAMBDA a : a.target # "api.ipify.org")

Failed(a) == a.result \in {"timeout", "http", "rejected", "invalid", "flag"}

ProviderOrder == <<"ip-api.com", "ipapi.co", "ipinfo.io">>

\* C1: within one request of the enhanced route the providers are contacted in the
\* order ip-api.com, ipapi.co, ipinfo.io; a provider is contacted only after the
\* attempt on the one before it has ended in failure; at most one provider call is
\* in flight at any moment.
C1_ProvidersStrictlyInOrder ==
    route = "enhanced" =>
        LET g == GeoAttempts
        IN /\ Len(g) <= Len(ProviderOrder)
           /\ \A i \in 1..Len(g) : g[i].target = ProviderOrder[i]
           /\ \A i \in 1..(Len(g) - 1) : Failed(g[i])
           /\ Cardinality({i \in 1..Len(g) : g[i].result = "pending"}) <= 1
           /\ (net.phase # "idle" /\ pc = "geo_await" =>
                  /\ g[Len(g)].result = "pending"
                  /\ net.target = g[Len(g)].target)

\* the third provider is in flight after the first two have failed
C1_Witness ==
    /\ route = "enhanced"
    /\ Len(GeoAttempts) = 3
    /\ GeoAttempts[3].result = "pending"
    /\ net.phase = "connect"
    /\ net.target = "ipinfo.io"

\* C2: a provider attempt that ends with a non-success status, the provider's error
\* flag or a timeout is that provider's failure only: the resolver goes on to the next
\* provider, and it throws (the caller's fallback is used) only when all three have
\* been attempted and have failed; no provider failure produces the error envelope.
C2_FailureAdvancesToNextProvider ==
    route = "enhanced" =>
        LET g == GeoAttempts
        IN /\ (pc = "geo_loop" =>
                  /\ apiIdx = Len(g) + 1
                  /\ \A i \in 1..Len(g) : Failed(g[i]))
           /\ (geoSrc = "fallback" =>
                  /\ Len(g) = Len(ProviderOrder)
                  /\ \A i \in 1..Len(g) : Failed(g[i]))
           /\ (response.status = 500 =>
                  ~body.json \/ "userAgent" \notin DOMAIN clientData)

\* the first provider set its error flag and the second timed out; the third answers
C2_Witness ==
    /\ route = "enhanced"
    /\ Len(GeoAttempts) = 3
    /\ GeoAttempts[1].result = "flag"
    /\ GeoAttempts[2].result = "timeout"
    /\ geoSrc = "ipinfo.io"
    /\ response.status = 200

\* the timezone the body supplies, or UTC
ClientTimezone ==
    IF "timezone" \in DOMAIN clientData /\ clientData.timezone # ""
    THEN clientData.timezone
    ELSE "UTC"

\* every provider of the enhanced route's request has been attempted and has failed
AllProvidersFailed ==
    /\ Len(GeoAttempts) = Len(ProviderOrder)
    /\ \A i \in 1..Len(GeoAttempts) : Failed(GeoAttempts[i])

\* the handler holds the static fallback record
HoldsStaticFallback ==
    /\ ~isLocalhost
    /\ geoSrc = "fallback"
    /\ GeoFields \subseteq DOMAIN geoData
    /\ geoData.country = "Unknown"
    /\ geoData.city = "Unknown"
    /\ geoData.lat = 0
    /\ geoData.lon = 0
    /\ geoData.timezone = ClientTimezone

\* C3 (as stated): when every provider fails for a non-private IP the handler uses the
\* static fallback record and the request completes with a success response, never a 500.
C3_Original ==
    route = "enhanced" /\ AllProvidersFailed /\ pc \notin {"geo_loop", "geo_await"} =>
        /\ HoldsStaticFallback
        /\ (pc = "done" => response.status = 200 /\ response.success)

\* C3 (amended): when every provider fails for a non-private IP the resolver throws, the
\* handler uses the static fallback record (country Unknown, latitude and longitude 0,
\* timezone of the client or UTC), and the request completes with a success response
\* provided the body carries a userAgent; a body without one is answered 500.
C3_FallbackThenSuccess ==
    route = "enhanced" /\ AllProvidersFailed /\ pc \notin {"geo_loop", "geo_await"} =>
        /\ HoldsStaticFallback
        /\ (pc = "done" =>
               IF "userAgent" \in DOMAIN clientData
               THEN /\ response.status = 200 /\ response.success
                    /\ response.visitorInfo.country = "Unknown"
                    /\ response.visitorInfo.latitude = 0
                    /\ response.visitorInfo.longitude = 0
               ELSE response.status = 500)

\* all three providers have failed and the request was answered with the fallback data
C3_Witness ==
    /\ route = "enhanced"
    /\ AllProvidersFailed
    /\ geoSrc = "fallback"
    /\ pc = "done"
    /\ response.status = 200
    /\ response.visitorInfo.timezone = "UTC"

\* C4: whenever the resolver returns, the record has every field of the normalized
\* schema defined, for every provider and every 2xx body that passes its error check.
C4_ReturnedRecordIsComplete ==
    route = "enhanced" /\ geoSrc \in {"ip-api.com", "ipapi.co", "ipinfo.io"} =>
        GeoFields \subseteq DOMAIN geoData

\* C5: if ip-api.com times out and ipapi.co succeeds, the record the resolver returns is
\* ipapi.co's transform of ipapi.co's answer, and ipinfo.io is never contacted.
C5_SecondProviderRecord ==
    /\ route = "enhanced"
    /\ Len(GeoAttempts) >= 2
    /\ GeoAttempts[1].result = "timeout"
    /\ GeoAttempts[2].result = "ok"
    => LET data == GeoAttempts[2].data.value
       IN /\ Len(GeoAttempts) = 2
          /\ geoSrc = "ipapi.co"
          /\ geoData = transformIpapiCo(ip, data)
          /\ geoData.query = ip
          /\ geoData.city = (IF "city" \in DOMAIN data THEN data.city ELSE "Unknown")
          /\ geoData.country =
                (IF "country_name" \in DOMAIN data THEN data.country_name ELSE "Unknown")
          /\ DOMAIN geoData = GeoFields

\* ip-api.com timed out, ipapi.co answered a body that omits fields, the request is done
C5_Witness ==
    /\ route = "enhanced"
    /\ Len(GeoAttempts) = 2
    /\ GeoAttempts[1].result = "timeout"
    /\ GeoAttempts[2].result = "ok"
    /\ "country_name" \notin DOMAIN GeoAttempts[2].data.value
    /\ pc = "done"
    /\ response.status = 200

(***************************************************************************)
(* Properties of the tracking handlers                                     *)
(***************************************************************************)
\* C6: every tracking request is eventually answered, even when an outbound call of it
\* never answers: each outbound call is aborted by its own timeout.
C6_EveryRequestIsAnswered == (pc = "start") ~> (pc = "done")

\* the address is ::1, 127.0.0.1 or in one of the ranges the handler takes for private
PrivateInput ==
    \/ ip \in {STR_loopback6, STR_loopback}
    \/ StartsWith(ip, STR_192_168)
    \/ StartsWith(ip, STR_10)
    \/ StartsWith(ip, STR_172)

\* the public-IP probe was made and has failed
ProbeFailed ==
    /\ Len(attempts) >= 1
    /\ attempts[1].target = "api.ipify.org"
    /\ attempts[1].result \in {"http", "rejected", "timeout", "invalid"}

\* the handler holds the demo placeholder location
HoldsDemoPlaceholder ==
    /\ geoSrc = "localhost"
    /\ geoData.city = "London"
    /\ geoData.regionName = "England"
    /\ geoData.country = "United Kingdom"
    /\ geoData.lat = LondonLat
    /\ geoData.lon = LondonLon
    /\ geoData.query = ip

\* a request of the enhanced route with a private address, past the probe
PastFailedProbe ==
    /\ route = "enhanced"
    /\ ip # Undefined
    /\ PrivateInput
    /\ pc \notin {"probe", "resolve"}
    /\ ProbeFailed

\* C7 (as stated): for a private or loopback address, when the public-IP probe fails the
\* geolocation result is the demo placeholder location and the request does not error.
C7_Original ==
    /\ (route = "enhanced" /\ ip # Undefined /\ PrivateInput =>
           isLocalhost /\ Len(attempts) >= 1 /\ attempts[1].target = "api.ipify.org")
    /\ (PastFailedProbe =>
           /\ HoldsDemoPlaceholder
           /\ GeoAttempts = <<>>
           /\ response.status # 500)

\* C7 (amended): for a private or loopback address, when the public-IP probe fails the
\* geolocation result is the demo placeholder location, no provider is contacted, and the
\* request is answered with success provided the body carries a userAgent; a body
\* without one is answered 500.
C7_PlaceholderAfterFailedProbe ==
    /\ (route = "enhanced" /\ ip # Undefined /\ PrivateInput =>
           isLocalhost /\ Len(attempts) >= 1 /\ attempts[1].target = "api.ipify.org")
    /\ (PastFailedProbe =>
           /\ HoldsDemoPlaceholder
           /\ GeoAttempts = <<>>
           /\ (pc = "done" =>
                  IF "userAgent" \in DOMAIN clientData
                  THEN /\ response.status = 200
                       /\ response.visitorInfo.city = "London"
                       /\ response.visitorInfo.latitude = LondonLat
                  ELSE response.status = 500))

\* a request from 192.168.0.7 whose probe timed out is answered with the placeholder
C7_Witness ==
    /\ route = "enhanced"
    /\ ip = STR_private
    /\ ProbeFailed
    /\ attempts[1].result = "timeout"
    /\ pc = "done"
    /\ response.status = 200
    /\ response.visitorInfo.city = "London"

\* C9: every visitor record a tracking request persists has a non-empty IP string.
C9_StoredIPNonEmpty ==
    \A i \in 1..Len(visitors) : visitors[i].ip # <<>> /\ visitors[i].ip # Undefined

\* the IP headers of the request are x-forwarded-for: 8.8.8.8, 10.0.0.1 and no other,
\* and the body's userAgent contains Mobile
MobileBehindProxy ==
    /\ route \in {"enhanced", "basic"}
    /\ DOMAIN hdr \ {"user-agent"} = {"x-forwarded-for"}
    /\ hdr["x-forwarded-for"] = STR_xff_two
    /\ body.json
    /\ "userAgent" \in DOMAIN body.value
    /\ Includes(body.value.userAgent, STR_Mobile)

\* C10 (as stated): such a request resolves the IP to 8.8.8.8 and the device type to
\* Mobile, whatever the providers and the user-agent parser return.
C10_Original ==
    MobileBehindProxy /\ visitorInfo # NoObject =>
        /\ visitorInfo.ip = STR_8_8_8_8
        /\ visitorInfo.device = "Mobile"

\* the user-agent the route classifies: the enhanced route reads the body's, the basic
\* route prefers the user-agent request header
ClassifiedUA == IF route = "basic" THEN BasicUA ELSE clientData.userAgent

\* C10 (amended): such a request resolves the IP to 8.8.8.8 whatever the collaborators
\* return, and the device type to Mobile whatever the providers return when the
\* user-agent parser reports the device type mobile or reports none and the user-agent
\* the route classifies contains Mobile; a reported tablet, smarttv or other type decides
\* the device type instead.
C10_MobileBehindProxy ==
    MobileBehindProxy /\ visitorInfo # NoObject =>
        /\ visitorInfo.ip = STR_8_8_8_8
        /\ (uaResult = "mobile" => visitorInfo.device = "Mobile")
        /\ (uaResult = "none" /\ Includes(ClassifiedUA, STR_Mobile) =>
               visitorInfo.device = "Mobile")
        /\ (uaResult = "tablet" => visitorInfo.device = "Tablet")
        /\ (uaResult = "console" => visitorInfo.device = "Desktop")

\* the parser reported no device type, the provider did not flag mobile, and the
\* request was answered with device type Mobile for 8.8.8.8
C10_Witness ==
    /\ MobileBehindProxy
    /\ route = "enhanced"
    /\ uaResult = "none"
    /\ ~Flag(geoData, "mobile")
    /\ pc = "done"
    /\ response.status = 200
    /\ response.visitorInfo.ip = STR_8_8_8_8
    /\ response.visitorInfo.device = "Mobile"

(***************************************************************************)
(* Properties of the IP resolver                                           *)
(***************************************************************************)
HeaderPriority ==
    <<"cf-connecting-ip", "x-forwarded-for", "x-real-ip", "x-client-ip",
      "x-forwarded", "forwarded-for", "forwarded">>

\* header n is present with a value that is not empty (and, for forwarded, holds a
\* for= token)
Supplies(h, n) ==
    /\ n \in DOMAIN h
    /\ Len(h[n]) > 0
    /\ (n = "forwarded" => ForMatches(h[n]) # {})

\* the value taken from header n
Supplied(h, n) ==
    CASE n = "x-forwarded-for" -> Trim(SplitFirst(h[n], ","))
      [] n = "forwarded" -> ForToken(h[n])
      [] OTHER -> h[n]

\* C8: extractClientIP returns the value taken from the first header, in the order
\* cf-connecting-ip, x-forwarded-for (first entry, trimmed), x-real-ip, x-client-ip,
\* x-forwarded, forwarded-for, forwarded (its for= token), that is present and not
\* empty, and 127.0.0.1 when there is none: a higher-priority header wins over every
\* lower-priority one.
C8_FirstHeaderWins ==
    pc = "ip_done" =>
        LET given == {i \in 1..Len(HeaderPriority) : Supplies(hdr, HeaderPriority[i])}
        IN IF given = {}
           THEN ip = STR_loopback
           ELSE LET first == CHOOSE i \in given : \A j \in given : i <= j
                IN /\ ip = Supplied(hdr, HeaderPriority[first])
                   /\ \A j \in 1..(first - 1) : ~Supplies(hdr, HeaderPriority[j])

\* x-forwarded-for, x-real-ip and forwarded are all present and x-forwarded-for wins
\* with its first entry, trimmed
C8_Witness ==
    /\ pc = "ip_done"
    /\ "cf-connecting-ip" \notin DOMAIN hdr
    /\ Supplies(hdr, "x-forwarded-for")
    /\ hdr["x-forwarded-for"] = <<"7", " ", ",">>
    /\ Supplies(hdr, "x-real-ip")
    /\ Supplies(hdr, "forwarded")
    /\ ip = <<"7">>

\* C30: the two IP resolvers agree: for every set of request headers built from
\* cf-connecting-ip, x-forwarded-for and x-real-ip (each present or absent) getRealIP
\* of the track route returns the address ServerTracker.extractClientIP returns.
C30_ResolversAgree ==
    /\ pc = "ip_both"
    /\ DOMAIN hdr \subseteq {"cf-connecting-ip", "x-forwarded-for", "x-real-ip"}
    => calls[1].fn = "getRealIP" /\ calls[1].result = ip

(***************************************************************************)
(* Persistence failures and malformed bodies                               *)
(***************************************************************************)
\* the handler has passed its insert step: visitorInfo is built right before it
PastInsert == pc \in {"respond", "done"} /\ visitorInfo # NoObject

IsSuccessResponse == response.status = 200 /\ response.success

ResponseReadable ==
    route = "basic" => {"screen", "viewport"} \subseteq DOMAIN clientData

C12_DbSavedIffInserted ==
    (route = "enhanced" /\ pc = "done" /\ response.status = 200) =>
        /\ "dbSaved" \in DOMAIN response
        /\ response.dbSaved <=> (visitors = <<Row(visitorInfo)>>)
        /\ ~response.dbSaved <=> (visitors = <<>>)

\* a success response that flags a failed insert
C12_Witness ==
    /\ route = "enhanced" /\ pc = "done" /\ response.status = 200
    /\ ~response.dbSaved /\ visitors = <<>>

\* C13: a tracking request whose body cannot be parsed as JSON is answered with
\* status 500 and an error envelope carrying success: false, error and message,
\* and not with a success response.
C13_UnparsableBodyIs500 ==
    (pc = "done" /\ ~body.json) =>
        /\ response.status = 500
        /\ {"success", "error", "message"} \subseteq DOMAIN response
        /\ ~response.success

\* an answered request of the enhanced route whose body was not JSON
C13_Witness ==
    /\ pc = "done" /\ route = "enhanced" /\ ~body.json /\ response.status = 500
    /\ clientData = NoObject /\ visitors = <<>>

(***************************************************************************)
(* Properties of the classifiers                                           *)
(***************************************************************************)
\* the recorded calls of the function fn
CallsOf(fn) == {calls[i] : i \in {j \in DOMAIN calls : calls[j].fn = fn}}

\* s contains, case-insensitively, an entry of list
HasKeyword(s, list) == \E k \in list : Includes(toLowerCase(s), k)

IspOf(geo) == IF "isp" \in DOMAIN geo THEN geo.isp ELSE <<>>

OrgOf(geo) == IF "org" \in DOMAIN geo THEN geo.org ELSE <<>>

FlagSet(geo, f) == f \in DOMAIN geo /\ geo[f] = TRUE

\* the conditions of the statement of C15 as it was written: the hosting-provider
\* list is matched against the organization only
VpnAsStated(geo) ==
    \/ HasKeyword(IspOf(geo), vpnIndicators)
    \/ HasKeyword(OrgOf(geo), vpnIndicators)
    \/ HasKeyword(OrgOf(geo), suspiciousIsps)
    \/ FlagSet(geo, "proxy")
    \/ FlagSet(geo, "hosting")

\* the statement of C15 as it was written
C15_Original ==
    \A c \in CallsOf("detectVPN") : c.result <=> VpnAsStated(c.geoData)

\* C15: ServerTracker.detectVPN returns true if the ISP or organization string
\* contains a keyword of the VPN-service list, or the ISP or the organization
\* contains a name of the hosting-provider list, or the proxy or hosting flag of the
\* record is set; it returns false when none of these conditions holds.
C15_DetectVPN ==
    \A c \in CallsOf("detectVPN") :
        c.result <=>
            (VpnAsStated(c.geoData) \/ HasKeyword(IspOf(c.geoData), suspiciousIsps))

\* a record whose ISP alone names a hosting provider is classified as VPN
C15_Witness ==
    \E c \in CallsOf("detectVPN") :
        /\ IspOf(c.geoData) = STR_Amazon
        /\ OrgOf(c.geoData) = STR_Orange
        /\ ~FlagSet(c.geoData, "proxy") /\ ~FlagSet(c.geoData, "hosting")
        /\ c.result = TRUE

\* C16: the VPN classifier of either tracking route returns true for every record
\* whose organization is "Amazon".
C16_AmazonIsVPN ==
    \A c \in CallsOf("detectVPN") \cup CallsOf("basicDetectVPN") :
        OrgOf(c.geoData) = STR_Amazon => c.result = TRUE

\* the record carries a threat tag other than "low"; an empty string is no tag
ProviderThreat(geo) == "threat" \in DOMAIN geo /\ geo.threat \notin {"", "low"}

\* C17: ServerTracker.getThreatLevel returns the threat value of the provider when
\* the record carries a threat tag other than "low", whatever the local signals are;
\* otherwise "medium" if isVPN, the proxy flag or the hosting flag is set or the
\* user-agent contains an automation token; otherwise "low".
C17_ThreatLevel ==
    \A c \in CallsOf("getThreatLevel") :
        c.result =
            IF ProviderThreat(c.geoData) THEN c.geoData.threat
            ELSE IF \/ c.isVPN
                    \/ FlagSet(c.geoData, "proxy")
                    \/ FlagSet(c.geoData, "hosting")
                    \/ HasKeyword(c.userAgent, suspiciousUAPatterns)
                 THEN "medium"
                 ELSE "low"

\* the tag of the provider is returned although every local signal says medium
C17_Witness ==
    \E c \in CallsOf("getThreatLevel") :
        /\ ProviderThreat(c.geoData) /\ c.geoData.threat = "high"
        /\ c.isVPN /\ FlagSet(c.geoData, "proxy") /\ FlagSet(c.geoData, "hosting")
        /\ HasKeyword(c.userAgent, suspiciousUAPatterns)
        /\ c.result = "high"

\* the categories of C18, each by its own condition
SaysMobile(c) ==
    FlagSet(c.geoData, "mobile") \/ HasKeyword(c.userAgent, {<<"m","o","b","i","l","e">>})

SaysTablet(c) ==
    HasKeyword(c.userAgent, {<<"t","a","b","l","e","t">>, <<"i","p","a","d">>})

SaysSmartTV(c) ==
    HasKeyword(c.userAgent, {<<"s","m","a","r","t","-","t","v">>, <<"t","v">>})

SaysConsole(c) ==
    HasKeyword(c.userAgent, { <<"p","l","a","y","s","t","a","t","i","o","n">>,
                              <<"x","b","o","x">>,
                              <<"n","i","n","t","e","n","d","o">> })

\* C18: ServerTracker.getConnectionType returns "Mobile" if the mobile flag is set
\* or the user-agent contains "mobile" (case-insensitively); else "Tablet" if it
\* contains "tablet" or "ipad"; else "Smart TV", else "Gaming Console" by their
\* substring checks; else "Broadband": of several matching categories the earliest.
C18_ConnectionType ==
    \A c \in CallsOf("getConnectionType") :
        /\ c.result = "Mobile" <=> SaysMobile(c)
        /\ c.result = "Tablet" <=> (~SaysMobile(c) /\ SaysTablet(c))
        /\ c.result = "Smart TV" <=>
              (~SaysMobile(c) /\ ~SaysTablet(c) /\ SaysSmartTV(c))
        /\ c.result = "Gaming Console" <=>
              (~SaysMobile(c) /\ ~SaysTablet(c) /\ ~SaysSmartTV(c) /\ SaysConsole(c))
        /\ c.result = "Broadband" <=>
              ~(SaysMobile(c) \/ SaysTablet(c) \/ SaysSmartTV(c) \/ SaysConsole(c))

\* a user-agent naming a tablet and a mobile browser, with no mobile flag, is Mobile
C18_Witness ==
    \E c \in CallsOf("getConnectionType") :
        /\ ~FlagSet(c.geoData, "mobile")
        /\ HasKeyword(c.userAgent, {<<"m","o","b","i","l","e">>})
        /\ SaysTablet(c)
        /\ c.result = "Mobile"

\* the headers generateDeviceFingerprint hashes, in the order it joins them
HashedHeaders ==
    <<"accept-language", "accept-encoding", "accept", "dnt",
      "upgrade-insecure-requests">>

\* the header is absent from both calls or carries the same value in both
SameHeader(c, d, name) ==
    IF name \in DOMAIN c.headers
    THEN name \in DOMAIN d.headers /\ c.headers[name] = d.headers[name]
    ELSE name \notin DOMAIN d.headers

SameHashedInputs(c, d) ==
    /\ c.userAgent = d.userAgent
    /\ \A k \in DOMAIN HashedHeaders : SameHeader(c, d, HashedHeaders[k])

\* C19: two calls of generateDeviceFingerprint with the same user-agent and the same
\* values of the hashed headers return the same string, whatever the other headers
\* are and whatever was computed before.
C19_FingerprintDeterministic ==
    \A i, j \in DOMAIN calls :
        SameHashedInputs(calls[i], calls[j]) => calls[i].result = calls[j].result

\* two requests that agree on the hashed inputs and differ in another header
C19_Witness ==
    \E i, j \in DOMAIN calls :
        /\ i < j
        /\ SameHashedInputs(calls[i], calls[j])
        /\ "dnt" \in DOMAIN calls[i].headers
        /\ ~SameHeader(calls[i], calls[j], "connection")
        /\ calls[i].result = calls[j].result

\* the values a classifier of ServerTracker returns
ReturnType(c) ==
    CASE c.fn = "detectVPN" -> BOOLEAN
      [] c.fn = "getThreatLevel" ->
            {"low", "medium"} \cup (IF "threat" \in DOMAIN c.geoData
                                    THEN {c.geoData.threat} ELSE {})
      [] c.fn = "getConnectionType" ->
            {"Mobile", "Tablet", "Smart TV", "Gaming Console", "Broadband"}

\* C25: detectVPN, getThreatLevel and getConnectionType of ServerTracker are total and
\* side-effect-free: applied to any geolocation record (isp, org and the flags present
\* or missing) and any user-agent string, the call returns a value of its return type
\* (it does not throw) and changes nothing: the record and the user-agent it was given
\* and every other variable are after the call what they were before it.
C25_TotalAndSideEffectFree ==
    [][ /\ Len(calls') = Len(calls) + 1
        /\ SubSeq(calls', 1, Len(calls)) = calls
        /\ LET c == calls'[Len(calls')]
           IN  c.fn \in {"detectVPN", "getThreatLevel", "getConnectionType"} =>
                   /\ c.result \in ReturnType(c)
                   /\ c.geoData = geoData
                   /\ c.userAgent = clientData.userAgent
        /\ UNCHANGED <<route, hdr, body, clientData, ip, effectiveIP, isLocalhost,
                       apiIdx, net, attempts, geoData, geoSrc, uaResult, visitorInfo,
                       dbSaveSuccess, visitors, response, dpc, dash, clock, prisma,
                       dbError>> ]_vars

\* detectVPN has returned false for a record that has none of its fields
C25_Witness ==
    /\ pc = "returned"
    /\ Len(calls) = 1
    /\ calls[1].fn = "detectVPN"
    /\ DOMAIN calls[1].geoData = {}
    /\ calls[1].result = FALSE
    /\ geoData = calls[1].geoData

\* the strings generateDeviceFingerprint joins: the user-agent and the hashed headers
FingerprintInput(c) ==
    <<c.userAgent>> \o [k \in DOMAIN HashedHeaders |-> HeaderOr(c.headers, HashedHeaders[k])]

OneCharacterApart(s, t) ==
    Len(s) = Len(t) /\ Cardinality({k \in DOMAIN s : s[k] # t[k]}) = 1

\* the inputs of the two calls differ in exactly one character of one string
DifferInOneCharacter(c, d) ==
    \E k \in DOMAIN FingerprintInput(c) :
        /\ OneCharacterApart(FingerprintInput(c)[k], FingerprintInput(d)[k])
        /\ \A m \in DOMAIN FingerprintInput(c) \ {k} :
              FingerprintInput(c)[m] = FingerprintInput(d)[m]

\* C20: two inputs of generateDeviceFingerprint that differ in exactly one character
\* of the user-agent or of one hashed header value get two different fingerprints.
C20_OneCharacterChangesFingerprint ==
    \A i, j \in DOMAIN calls :
        DifferInOneCharacter(calls[i], calls[j]) => calls[i].result # calls[j].result

(***************************************************************************)
(* Properties of one tracking request: calls made, order of the steps      *)
(***************************************************************************)
\* the calls of the request to the public-IP echo service
ProbeAttempts == SelectSeq(attempts, LAMBDA a : a.target = "api.ipify.org")

\* C22: within one tracking request each geolocation provider is contacted at most
\* once, so at most three geolocation calls and at most one public-IP probe are made,
\* whatever the failures.
C22_NoProviderContactedTwice ==
    /\ \A i, j \in DOMAIN attempts :
          attempts[i].target = attempts[j].target => i = j
    /\ Len(GeoAttempts) <= Len(apis)
    /\ Len(ProbeAttempts) <= 1

\* a request whose three provider calls failed in three different ways has made
\* three calls, one to each provider
C22_Witness ==
    /\ route = "enhanced"
    /\ pc = "done"
    /\ Len(GeoAttempts) = 3
    /\ GeoAttempts[1].result = "timeout"
    /\ GeoAttempts[2].result = "http"
    /\ GeoAttempts[3].result = "invalid"
    /\ geoSrc = "fallback"

\* the positions of a handler between the IP resolution and the geolocation result
BeforeGeoResult == {"idle", "start", "probe", "resolve", "geo_loop", "geo_await"}

\* C23: a tracking request executes its steps in the order IP resolution, public-IP
\* probe (private address only), geolocation resolution, heuristic classification,
\* persistence attempt, response: the probe has ended before a provider is contacted,
\* the insert is attempted only after the geolocation resolution has finished (a
\* provider's record, the placeholder or the fallback) and no outbound call is pending,
\* and the payload is sent only by the step that follows the completed insert attempt.
C23_StepsInOrder ==
    [][ /\ (pc' = "resolve" => pc \in {"start", "probe"} /\ ip' # Undefined)
        /\ (pc' = "probe" /\ pc # "probe" => pc = "start")
        /\ (pc' \in {"geo_loop", "geo_await"} =>
               /\ pc \in {"start", "resolve", "geo_loop", "geo_await"}
               /\ \A i \in DOMAIN ProbeAttempts : ProbeAttempts[i].result # "pending")
        /\ (pc' = "classify" =>
               /\ pc \in BeforeGeoResult
               /\ geoSrc' # "none" /\ geoData' # NoObject
               /\ net' = NoCall)
        /\ (pc' = "insert" =>
               /\ pc = "classify"
               /\ geoSrc # "none" /\ geoData # NoObject /\ geoData' = geoData
               /\ \A i \in DOMAIN attempts : attempts[i].result # "pending"
               /\ visitors' = visitors)
        /\ (pc' = "inserting" => pc = "insert" /\ visitors' = visitors)
        /\ (visitors' # visitors => pc \in {"insert", "inserting"} /\ pc' = "respond")
        /\ (pc' = "respond" => pc \in {"insert", "inserting"})
        /\ (response'.status = 200 /\ response.status # 200 =>
               /\ pc = "respond"
               /\ visitors' = visitors) ]_vars

\* a request from a private address has been through every step: probe, placeholder,
\* classification, a failed insert and the response
C23_Witness ==
    /\ route = "enhanced"
    /\ pc = "done"
    /\ isLocalhost
    /\ Len(ProbeAttempts) = 1 /\ ProbeAttempts[1].result = "ok"
    /\ geoSrc = "localhost"
    /\ visitorInfo # NoObject
    /\ ~dbSaveSuccess
    /\ response.status = 200

\* C26: a tracking request that is answered with the 500 error envelope has persisted
\* no visitor record: in both routes and for every request body, an insert that succeeded
\* is followed by a success response.
C26_ErrorMeansNothingStored ==
    pc = "done" /\ response.status = 500 => visitors = <<>>

\* the geolocation record but for its query field
WithoutQuery(rec) == [f \in DOMAIN rec \ {"query"} |-> rec[f]]

\* C27: for a request whose resolved IP is classified private or loopback no geolocation
\* provider is contacted and the geolocation record is the demo placeholder whether the
\* public-IP probe succeeded or failed; the probe outcome shows only in the query field
\* of the record (the probed address, else the resolved one); the static fallback
\* record of the caller is used for no private IP.
C27_PrivateIPGetsPlaceholder ==
    route = "enhanced" /\ ip # Undefined /\ PrivateInput =>
        /\ isLocalhost
        /\ GeoAttempts = <<>>
        /\ geoSrc \in {"none", "localhost"}
        /\ geoSrc = "none" => pc \in {"probe", "resolve"}
        /\ geoSrc = "localhost" =>
              /\ WithoutQuery(geoData) = WithoutQuery(LocalhostRecord(ip))
              /\ geoData.city = "London" /\ geoData.zip = "EC1A 1BB"
              /\ geoData.lat = LondonLat /\ geoData.lon = LondonLon
              /\ IF effectiveIP = Undefined THEN "query" \notin DOMAIN geoData
                                            ELSE geoData.query = effectiveIP
              /\ attempts[1].result # "ok" => HoldsDemoPlaceholder
              /\ effectiveIP # ip =>
                    /\ attempts[1].result = "ok"
                    /\ effectiveIP = IF "ip" \in DOMAIN attempts[1].data.value
                                     THEN attempts[1].data.value.ip ELSE Undefined

\* a request from 192.168.0.7 whose probe returned a public address is answered with
\* the placeholder for that address, and no provider was asked
C27_Witness ==
    /\ route = "enhanced"
    /\ ip = STR_private
    /\ pc = "done"
    /\ attempts[1].result = "ok"
    /\ effectiveIP = STR_public
    /\ geoData.query = STR_public
    /\ geoData.city = "London"
    /\ GeoAttempts = <<>>
    /\ response.status = 200

(***************************************************************************)
(* Properties of requests served at the same time                          *)
(***************************************************************************)
\* C24: concurrent tracking requests do not interfere: no state written by one request
\* is read by another, so the persisted record and the response of a request are what
\* they are when it is served alone: while the create of a request is in flight the
\* database client is connected, as the request left it, and a create fails only with
\* an error of the store, never because another request released the client.
C24_RequestsDoNotInterfere ==
    /\ (route = "basic" /\ pc = "inserting" => prisma = "open")
    /\ dbError # "client"
    /\ (route = "basic" /\ pc \in {"respond", "done"} /\ visitorInfo # NoObject
        /\ dbError # "store" => visitors = <<Row(visitorInfo)>>)

(***************************************************************************)
(* Properties of the dashboard route                                       *)
(***************************************************************************)
\* the dashboard has answered a GET whose queries all succeeded
GetAnswered ==
    dpc = "responded" /\ dash.status # 500 /\ "recentActivity" \notin DOMAIN dash

\* C21: the dashboard GET returns the aggregate payload with a success status for
\* every state of the visitor table, the empty table included.
C21_GetReturnsPayload ==
    GetAnswered =>
        /\ dash.status = 200
        /\ {"totalVisitors", "uniqueDevices", "topDevices", "hourlyData"}
              \subseteq DOMAIN dash

RECURSIVE SumOfCounts(_)
SumOfCounts(groups) ==
    IF DOMAIN groups = {} THEN 0
    ELSE LET d == CHOOSE x \in DOMAIN groups : TRUE
         IN  groups[d] + SumOfCounts([x \in DOMAIN groups \ {d} |-> groups[x]])

\* C28: in every dashboard GET response the per-device counts of topDevices sum to
\* totalVisitors, also when tracking requests insert visitor records while the GET is
\* executing its queries.
C28_DeviceCountsSumToTotal ==
    GetAnswered /\ dash.status = 200 =>
        SumOfCounts(dash.topDevices) = dash.totalVisitors

\* C29: the hourlyData of a dashboard GET response has exactly 24 buckets whose
\* one-hour intervals are consecutive, in ascending order, and end with the hour
\* current at response time, also when the wall clock crosses an hour boundary while
\* the 24 count queries are running.
C29_HourlyBucketsConsecutive ==
    GetAnswered /\ dash.status = 200 =>
        /\ Len(dash.hourlyData) = 24
        /\ \A k \in 1..(Len(dash.hourlyData) - 1) :
              dash.hourlyData[k + 1].timestamp = dash.hourlyData[k].timestamp + 1
        /\ dash.hourlyData[Len(dash.hourlyData)].timestamp = dash.lastUpdated

(***************************************************************************)
(* Properties of the visitor table                                         *)
(***************************************************************************)
IsPrefix(s, t) == Len(s) <= Len(t) /\ SubSeq(t, 1, Len(s)) = s

\* C14: the visitor table is append-only: every step of every handler (tracking
\* POST, dashboard GET, dashboard POST) leaves each stored row in place and
\* unchanged; a row is added only by the insert step of a tracking request, one row
\* at a time, and a request passes its insert step once.
C14_AppendOnly ==
    [][ /\ IsPrefix(visitors, visitors')
        /\ Len(visitors') <= Len(visitors) + 1
        /\ visitors' # visitors => (pc \in {"insert", "inserting"} /\ pc' = "respond")
        /\ pc' = "insert" => pc = "classify" ]_vars

\* a row stored by an earlier request is in place after a later request has stored
\* its own and the dashboard has answered a GET
C14_Witness ==
    /\ Len(visitors) = 2
    /\ pc = "done"
    /\ dpc = "responded" /\ dash.status = 200 /\ "topDevices" \in DOMAIN dash
    /\ visitors[1].device # visitors[2].device

====
